---- MODULE Spec2Model ----
(***************************************************************************)
(* argdump: the value codec (serialize_value / deserialize_value of        *)
(* _values.py), the type registry (resolve_type of _types.py), and dump    *)
(* and load of a parser (_serializer.py, _deserializer.py) on argparse.     *)
(*                                                                         *)
(* Python values are records tagged by their type in field t.  A Python    *)
(* str is the sequence of its code points, so that str(), sorted(key=str)  *)
(* and the byte codecs are computed and not looked up.  Containers hold    *)
(* their children in order: a list or tuple its items, a dict its          *)
(* (key, value) pairs in insertion order, a set or frozenset its elements  *)
(* in iteration order.                                                     *)
(***************************************************************************)
EXTENDS Integers, Sequences, FiniteSets, TLC

VARIABLES
    val,        \* codec: the Python value handed to serialize_value
    tree,       \* codec: the tree serialize_value returned, or a tree received from a document
    tree2,      \* codec: the tree of a second encode of an equal value
    out,        \* codec: what deserialize_value returned (or the exception it raised)
    pc,         \* codec: "input", "encoded", "decoded"
    heap,       \* graph: object id -> container object whose slots hold values or references
    enc,        \* graph: the result, final _seen and visit log of serialize_value on the chosen root
    gpc,        \* graph: "build", "encoded"
    converter,       \* registry: the callable handed to type_info_from_callable
    type_info,       \* registry: the TypeInfo passed to resolve_type
    file_type_info,  \* registry: the FileTypeInfo passed to resolve_type, or None
    strict,          \* registry: the strict flag
    resolved,        \* registry: what resolve_type returned (or the exception it raised)
    rpc,             \* registry: "extract", "call", "returned"
    document,    \* loader: the document handed to load
    load_strict, \* loader: the strict flag of load
    restored,    \* loader: the ArgumentParser load returned (or the exception it raised)
    cmdline,     \* loader: the command line handed to restored.parse_args
    namespace,   \* loader: the namespace parse_args returned (or the exception it raised)
    lpc,         \* loader: "build", "document", "loaded", "parsed"
    original,    \* dumper: the ArgumentParser the program builds and hands to dump
    with_env,    \* dumper: the include_env flag of dump
    twin         \* dumper: the parser loaded from the dump made with the other include_env

codecVars == <<val, tree, tree2, out, pc>>
graphVars == <<heap, enc, gpc>>
registryVars == <<converter, type_info, file_type_info, strict, resolved, rpc>>
loaderVars == <<document, load_strict, restored, cmdline, namespace, lpc>>
dumperVars == <<original, with_env, twin>>
vars == <<val, tree, tree2, out, pc, heap, enc, gpc,
          converter, type_info, file_type_info, strict, resolved, rpc,
          document, load_strict, restored, cmdline, namespace, lpc,
          original, with_env, twin>>

(***************************************************************************)
(* Bounds of the model.                                                    *)
(***************************************************************************)
MaxDepth == 2          \* nesting depth of the values handed to the codec
MaxRefs == 3           \* slots filled in the heap of the graph specification
RecursionLimit == 6    \* the interpreter's recursion ceiling, in nesting levels

(***************************************************************************)
(* String literals, as code points.                                        *)
(***************************************************************************)
S_SUPPRESS_value == <<61, 61, 83, 85, 80, 80, 82, 69, 83, 83, 61, 61>>  \* argparse.SUPPRESS
S_REMAINDER_value == <<46, 46, 46>>  \* argparse.REMAINDER
K_argparse == <<95, 95, 97, 114, 103, 112, 97, 114, 115, 101, 95, 95>>  \* "__argparse__"
S_SUPPRESS == <<83, 85, 80, 80, 82, 69, 83, 83>>  \* "SUPPRESS"
S_REMAINDER == <<82, 69, 77, 65, 73, 78, 68, 69, 82>>  \* "REMAINDER"
K_circular_ref == <<95, 95, 99, 105, 114, 99, 117, 108, 97, 114, 95, 114, 101, 102, 95, 95>>  \* "__circular_ref__"
K_set == <<95, 95, 115, 101, 116, 95, 95>>  \* "__set__"
K_frozenset == <<95, 95, 102, 114, 111, 122, 101, 110, 115, 101, 116, 95, 95>>  \* "__frozenset__"
K_enum == <<95, 95, 101, 110, 117, 109, 95, 95>>  \* "__enum__"
K_class == <<99, 108, 97, 115, 115>>  \* "class"
K_module == <<109, 111, 100, 117, 108, 101>>  \* "module"
K_value == <<118, 97, 108, 117, 101>>  \* "value"
K_name == <<110, 97, 109, 101>>  \* "name"
K_bytes == <<95, 95, 98, 121, 116, 101, 115, 95, 95>>  \* "__bytes__"
K_bytes_b64 == <<95, 95, 98, 121, 116, 101, 115, 95, 98, 54, 52, 95, 95>>  \* "__bytes_b64__"
K_range == <<95, 95, 114, 97, 110, 103, 101, 95, 95>>  \* "__range__"
K_type == <<95, 95, 116, 121, 112, 101, 95, 95>>  \* "__type__"
K_repr == <<95, 95, 114, 101, 112, 114, 95, 95>>  \* "__repr__"
K_type_name == <<95, 95, 116, 121, 112, 101, 95, 110, 97, 109, 101, 95, 95>>  \* "__type_name__"
K_serializable == <<95, 95, 115, 101, 114, 105, 97, 108, 105, 122, 97, 98, 108, 101, 95, 95>>  \* "__serializable__"
S_None == <<78, 111, 110, 101>>  \* "None"
S_True == <<84, 114, 117, 101>>  \* "True"
S_False == <<70, 97, 108, 115, 101>>  \* "False"
S_builtins == <<98, 117, 105, 108, 116, 105, 110, 115>>  \* "builtins"
S_int == <<105, 110, 116>>  \* "int"
S_str == <<115, 116, 114>>  \* "str"
S_Color == <<67, 111, 108, 111, 114>>  \* "Color"
S_RED == <<82, 69, 68>>  \* "RED"
S_red == <<114, 101, 100>>  \* "red"
S_Blob == <<66, 108, 111, 98>>  \* "Blob"
S_RAW == <<82, 65, 87>>  \* "RAW"
S_missing == <<109, 105, 115, 115, 105, 110, 103>>  \* "missing"
S_frozenset_open == <<102, 114, 111, 122, 101, 110, 115, 101, 116, 40, 123>>  \* "frozenset({"
S_frozenset_close == <<125, 41>>  \* "})"
S_frozenset_empty == <<102, 114, 111, 122, 101, 110, 115, 101, 116, 40, 41>>  \* "frozenset()"
S_set_empty == <<115, 101, 116, 40, 41>>  \* "set()"
S_range_open == <<114, 97, 110, 103, 101, 40>>  \* "range("
S_comma_space == <<44, 32>>  \* ", "
S_class_open == <<60, 99, 108, 97, 115, 115, 32, 39>>  \* "<class '"
S_class_close == <<39, 62>>  \* "'>"
S_a == <<97>>  \* "a"
S_b == <<98>>  \* "b"
S_2 == <<50>>  \* "2"
S_1_5 == <<49, 46, 53>>  \* "1.5"
S_nan == <<110, 97, 110>>  \* "nan"
S_object_repr == <<60, 79, 98, 106, 62>>  \* "<Obj>"
S_Obj == <<79, 98, 106>>  \* "Obj"
S_argparse == <<97, 114, 103, 112, 97, 114, 115, 101>>  \* "argparse"
S_test_values == <<116, 101, 115, 116, 95, 118, 97, 108, 117, 101, 115>>  \* "test_values"
S_GREEN == <<71, 82, 69, 69, 78>>  \* "GREEN"
S_green == <<103, 114, 101, 101, 110>>  \* "green"
S_BLUE == <<66, 76, 85, 69>>  \* "BLUE"
S_blue == <<98, 108, 117, 101>>  \* "blue"
S_NoneType == <<78, 111, 110, 101, 84, 121, 112, 101>>  \* "NoneType"
S_float == <<102, 108, 111, 97, 116>>  \* "float"
S_bool == <<98, 111, 111, 108>>  \* "bool"
S_complex == <<99, 111, 109, 112, 108, 101, 120>>  \* "complex"
S_bytes == <<98, 121, 116, 101, 115>>  \* "bytes"
S_bytearray == <<98, 121, 116, 101, 97, 114, 114, 97, 121>>  \* "bytearray"
S_ascii == <<97, 115, 99, 105, 105>>  \* "ascii"
S_open == <<111, 112, 101, 110>>  \* "open"
S_len == <<108, 101, 110>>  \* "len"
S_dunder_name == <<95, 95, 110, 97, 109, 101, 95, 95>>  \* "__name__"
S_FileType == <<70, 105, 108, 101, 84, 121, 112, 101>>  \* "FileType"
S_pathlib == <<112, 97, 116, 104, 108, 105, 98>>  \* "pathlib"
S_Path == <<80, 97, 116, 104>>  \* "Path"
S_builtin_function == <<98, 117, 105, 108, 116, 105, 110, 95, 102, 117, 110, 99, 116, 105, 111, 110, 95, 111, 114, 95, 109, 101, 116, 104, 111, 100>>  \* "builtin_function_or_method"
S_lambda == <<60, 108, 97, 109, 98, 100, 97, 62>>  \* "<lambda>"
S_nonexistent_module == <<110, 111, 110, 101, 120, 105, 115, 116, 101, 110, 116, 46, 109, 111, 100, 117, 108, 101>>  \* "nonexistent.module"
S_NonExistent == <<78, 111, 110, 69, 120, 105, 115, 116, 101, 110, 116>>  \* "NonExistent"
S_r == <<114>>  \* "r"
S_w == <<119>>  \* "w"
S_utf_8 == <<117, 116, 102, 45, 56>>  \* "utf-8"
S_rel_module == <<46, 114, 101, 108>>  \* ".rel"

(***************************************************************************)
(* Python values.                                                          *)
(***************************************************************************)
PyNone == [t |-> "NoneType"]
PyBool(b) == [t |-> "bool", b |-> b]
PyInt(i) == [t |-> "int", i |-> i]
PyFloat(r) == [t |-> "float", f |-> r]       \* a float is named by its repr
PyStr(s) == [t |-> "str", s |-> s]
PyList(xs) == [t |-> "list", items |-> xs]
PyTuple(xs) == [t |-> "tuple", items |-> xs]
PyDict(ps) == [t |-> "dict", pairs |-> ps]
PySet(xs) == [t |-> "set", items |-> xs]
PyFrozenset(xs) == [t |-> "frozenset", items |-> xs]
PyBytes(bs) == [t |-> "bytes", bytes |-> bs]
PyRange(a, b, c) == [t |-> "range", start |-> a, stop |-> b, step |-> c]
PyEnum(c, m, n, v) == [t |-> "enum", cls |-> c, module |-> m, name |-> n, value |-> v]
PyType(n, m) == [t |-> "type", name |-> n, module |-> m]
PyObject(r, tn) == [t |-> "object", repr |-> r, type_name |-> tn]
Ref(id) == [t |-> "ref", id |-> id]           \* a reference to heap object id
Raise(e) == [t |-> "raise", exc |-> e]        \* an exception propagating out of a call
NoExc == [t |-> "noexc"]

SUPPRESS == PyStr(S_SUPPRESS_value)
REMAINDER == PyStr(S_REMAINDER_value)

IsRef(v) == v.t = "ref"
IsRaise(v) == v.t = "raise"
IsContainer(v) == v.t \in {"list", "tuple", "dict", "set", "frozenset"}
Deref(h, v) == IF IsRef(v) THEN h[v.id] ELSE v
Entry(k, v) == <<PyStr(k), v>>

RECURSIVE Concat(_)
Concat(ss) == IF ss = <<>> THEN <<>> ELSE Head(ss) \o Concat(Tail(ss))

RECURSIVE Join(_, _)
Join(ss, sep) ==
    IF ss = <<>> THEN <<>>
    ELSE IF Len(ss) = 1 THEN ss[1]
    ELSE ss[1] \o sep \o Join(Tail(ss), sep)

Min(a, b) == IF a < b THEN a ELSE b

\* s < t for two str, by code point
LexLess(a, b) ==
    \E i \in 1..(Min(Len(a), Len(b)) + 1) :
        /\ \A j \in 1..(i - 1) : a[j] = b[j]
        /\ \/ i = Len(a) + 1 /\ i <= Len(b)
           \/ i <= Len(a) /\ i <= Len(b) /\ a[i] < b[i]

RECURSIVE IntStr(_)
IntStr(i) ==
    IF i < 0 THEN <<45>> \o IntStr(-i)
    ELSE IF i < 10 THEN <<48 + i>>
    ELSE IntStr(i \div 10) \o <<48 + (i % 10)>>

HexDigit(d) == IF d < 10 THEN 48 + d ELSE 87 + d

\* one byte inside a bytes repr
ByteRepr(b) ==
    IF b = 92 THEN <<92, 92>>
    ELSE IF b = 39 THEN <<92, 39>>
    ELSE IF b = 9 THEN <<92, 116>>
    ELSE IF b = 10 THEN <<92, 110>>
    ELSE IF b = 13 THEN <<92, 114>>
    ELSE IF b >= 32 /\ b < 127 THEN <<b>>
    ELSE <<92, 120, HexDigit(b \div 16), HexDigit(b % 16)>>

(***************************************************************************)
(* str() and repr() of a value, as sorted(key=str) and str(k) call them.   *)
(* The str of the model hold no quote, backslash or control character,     *)
(* so the repr of a str is the str between quotes.                         *)
(***************************************************************************)
RECURSIVE Str(_, _)
RECURSIVE Repr(_, _)
Reprs(h, xs) == [i \in DOMAIN xs |-> Repr(h, xs[i])]

Str(h, v) ==
    LET o == Deref(h, v) IN
    CASE o.t = "NoneType" -> S_None
      [] o.t = "bool" -> IF o.b THEN S_True ELSE S_False
      [] o.t = "int" -> IntStr(o.i)
      [] o.t = "float" -> o.f
      [] o.t = "str" -> o.s
      [] o.t = "list" -> <<91>> \o Join(Reprs(h, o.items), S_comma_space) \o <<93>>
      [] o.t = "tuple" ->
            <<40>> \o Join(Reprs(h, o.items), S_comma_space)
                   \o (IF Len(o.items) = 1 THEN <<44>> ELSE <<>>) \o <<41>>
      [] o.t = "dict" ->
            <<123>> \o Join([i \in DOMAIN o.pairs |->
                                Repr(h, o.pairs[i][1]) \o <<58, 32>> \o Repr(h, o.pairs[i][2])],
                            S_comma_space) \o <<125>>
      [] o.t = "set" ->
            IF o.items = <<>> THEN S_set_empty
            ELSE <<123>> \o Join(Reprs(h, o.items), S_comma_space) \o <<125>>
      [] o.t = "frozenset" ->
            IF o.items = <<>> THEN S_frozenset_empty
            ELSE S_frozenset_open \o Join(Reprs(h, o.items), S_comma_space) \o S_frozenset_close
      [] o.t = "bytes" -> <<98, 39>> \o Concat([i \in DOMAIN o.bytes |-> ByteRepr(o.bytes[i])]) \o <<39>>
      [] o.t = "range" ->
            S_range_open \o IntStr(o.start) \o S_comma_space \o IntStr(o.stop)
                \o (IF o.step = 1 THEN <<>> ELSE S_comma_space \o IntStr(o.step)) \o <<41>>
      [] o.t = "enum" -> o.cls \o <<46>> \o o.name
      [] o.t = "type" ->
            S_class_open \o (IF o.module = S_builtins THEN <<>> ELSE o.module \o <<46>>)
                \o o.name \o S_class_close
      [] OTHER -> o.repr

Repr(h, v) ==
    LET o == Deref(h, v) IN
    CASE o.t = "str" -> <<39>> \o o.s \o <<39>>
      [] o.t = "enum" -> <<60>> \o o.cls \o <<46>> \o o.name \o <<58, 32>> \o Repr(h, o.value) \o <<62>>
      [] OTHER -> Str(h, v)

(***************************************************************************)
(* The byte codecs the bytes branch calls: UTF-8 and base64.               *)
(***************************************************************************)
IsCont(b) == b >= 128 /\ b <= 191

\* bytes.decode("utf-8"): the code points, or ok = FALSE for UnicodeDecodeError
RECURSIVE Utf8Decode(_)
Utf8Decode(bs) ==
    IF bs = <<>> THEN [ok |-> TRUE, s |-> <<>>]
    ELSE
      LET b1 == bs[1]
          n == IF b1 < 128 THEN 1
               ELSE IF b1 >= 194 /\ b1 <= 223 THEN 2
               ELSE IF b1 >= 224 /\ b1 <= 239 THEN 3
               ELSE IF b1 >= 240 /\ b1 <= 244 THEN 4
               ELSE 0
          wellFormed ==
              /\ n > 0
              /\ Len(bs) >= n
              /\ \A j \in 2..n : IsCont(bs[j])
              /\ (b1 = 224 => bs[2] >= 160)
              /\ (b1 = 237 => bs[2] <= 159)
              /\ (b1 = 240 => bs[2] >= 144)
              /\ (b1 = 244 => bs[2] <= 143)
          cp == IF n = 1 THEN b1
                ELSE IF n = 2 THEN (b1 - 192) * 64 + (bs[2] - 128)
                ELSE IF n = 3 THEN (b1 - 224) * 4096 + (bs[2] - 128) * 64 + (bs[3] - 128)
                ELSE (b1 - 240) * 262144 + (bs[2] - 128) * 4096 + (bs[3] - 128) * 64 + (bs[4] - 128)
      IN IF ~wellFormed THEN [ok |-> FALSE, s |-> <<>>]
         ELSE LET r == Utf8Decode(SubSeq(bs, n + 1, Len(bs)))
              IN [ok |-> r.ok, s |-> IF r.ok THEN <<cp>> \o r.s ELSE <<>>]

\* the UTF-8 bytes of one code point
Utf8EncodeChar(cp) ==
    IF cp < 128 THEN <<cp>>
    ELSE IF cp < 2048 THEN <<192 + (cp \div 64), 128 + (cp % 64)>>
    ELSE IF cp < 65536 THEN <<224 + (cp \div 4096), 128 + ((cp \div 64) % 64), 128 + (cp % 64)>>
    ELSE <<240 + (cp \div 262144), 128 + ((cp \div 4096) % 64),
           128 + ((cp \div 64) % 64), 128 + (cp % 64)>>

IsSurrogate(cp) == cp >= 55296 /\ cp <= 57343

\* str.encode("utf-8"): the bytes, or ok = FALSE for UnicodeEncodeError
Utf8Encode(s) ==
    IF \E i \in DOMAIN s : IsSurrogate(s[i]) THEN [ok |-> FALSE, bytes |-> <<>>]
    ELSE [ok |-> TRUE, bytes |-> Concat([i \in DOMAIN s |-> Utf8EncodeChar(s[i])])]

\* the base64 alphabet
B64Char(n) ==
    IF n < 26 THEN 65 + n
    ELSE IF n < 52 THEN 97 + (n - 26)
    ELSE IF n < 62 THEN 48 + (n - 52)
    ELSE IF n = 62 THEN 43
    ELSE 47

B64Val(c) ==
    IF c >= 65 /\ c <= 90 THEN c - 65
    ELSE IF c >= 97 /\ c <= 122 THEN c - 97 + 26
    ELSE IF c >= 48 /\ c <= 57 THEN c - 48 + 52
    ELSE IF c = 43 THEN 62
    ELSE IF c = 47 THEN 63
    ELSE 64

\* base64.b64encode(bs).decode("ascii")
RECURSIVE B64Encode(_)
B64Encode(bs) ==
    IF bs = <<>> THEN <<>>
    ELSE IF Len(bs) = 1 THEN
        <<B64Char(bs[1] \div 4), B64Char((bs[1] % 4) * 16), 61, 61>>
    ELSE IF Len(bs) = 2 THEN
        <<B64Char(bs[1] \div 4), B64Char((bs[1] % 4) * 16 + bs[2] \div 16),
          B64Char((bs[2] % 16) * 4), 61>>
    ELSE
        <<B64Char(bs[1] \div 4), B64Char((bs[1] % 4) * 16 + bs[2] \div 16),
          B64Char((bs[2] % 16) * 4 + bs[3] \div 64), B64Char(bs[3] % 64)>>
        \o B64Encode(SubSeq(bs, 4, Len(bs)))

\* binascii.a2b_base64 without strict mode: characters outside the alphabet are
\* skipped, a complete pad sequence ends the parse, and a quad left open at the end
\* of the data is binascii.Error
RECURSIVE A2bBase64(_, _, _, _, _)
A2bBase64(cs, quad_pos, leftchar, pads, acc) ==
    IF cs = <<>> THEN [ok |-> quad_pos = 0, bytes |-> acc]
    ELSE
      LET c == Head(cs)
          v == B64Val(c)
      IN IF c = 61 THEN
            IF quad_pos >= 2 /\ quad_pos + pads + 1 >= 4 THEN [ok |-> TRUE, bytes |-> acc]
            ELSE A2bBase64(Tail(cs), quad_pos, leftchar,
                           IF quad_pos >= 2 THEN pads + 1 ELSE pads, acc)
         ELSE IF v >= 64 THEN A2bBase64(Tail(cs), quad_pos, leftchar, pads, acc)
         ELSE IF quad_pos = 0 THEN A2bBase64(Tail(cs), 1, v, 0, acc)
         ELSE IF quad_pos = 1 THEN
            A2bBase64(Tail(cs), 2, v % 16, 0, Append(acc, leftchar * 4 + v \div 16))
         ELSE IF quad_pos = 2 THEN
            A2bBase64(Tail(cs), 3, v % 4, 0, Append(acc, leftchar * 16 + v \div 4))
         ELSE A2bBase64(Tail(cs), 0, 0, 0, Append(acc, leftchar * 64 + v))

\* base64.b64decode(x): bytes, or the exception raised
B64Decode(x) ==
    IF x.t = "str" THEN
        IF \E i \in DOMAIN x.s : x.s[i] >= 128 THEN Raise("ValueError")
        ELSE LET r == A2bBase64(x.s, 0, 0, 0, <<>>)
             IN IF r.ok THEN PyBytes(r.bytes) ELSE Raise("binascii.Error")
    ELSE IF x.t = "bytes" THEN
        LET r == A2bBase64(x.bytes, 0, 0, 0, <<>>)
        IN IF r.ok THEN PyBytes(r.bytes) ELSE Raise("binascii.Error")
    ELSE Raise("TypeError")

(***************************************************************************)
(* serialize_value.  A call returns the tree together with the _seen set   *)
(* it leaves behind (the set is one mutable object shared by the whole     *)
(* recursion) and the log of the composite objects it met: for each, the   *)
(* _seen set on entry, the objects whose encoding was in progress (the     *)
(* call stack) and whether the circular marker was emitted.                *)
(***************************************************************************)
Ret(tr, seen, log) == [tree |-> tr, seen |-> seen, log |-> log]
Visit(id, seen, path, marker) == [id |-> id, seen |-> seen, path |-> path, marker |-> marker]
CircularMarker == PyDict(<<Entry(K_circular_ref, PyBool(TRUE))>>)

\* result[key] = v of a dict under construction
DictSet(pairs, key, v) ==
    IF \E i \in DOMAIN pairs : pairs[i][1] = key
    THEN [i \in DOMAIN pairs |-> IF pairs[i][1] = key THEN <<key, v>> ELSE pairs[i]]
    ELSE Append(pairs, <<key, v>>)

RECURSIVE DictOf(_, _, _)
DictOf(keys, vals, acc) ==
    IF keys = <<>> THEN acc
    ELSE DictOf(Tail(keys), Tail(vals), DictSet(acc, Head(keys), Head(vals)))

\* sorted(xs, key=str): stable, so elements whose str are equal keep the order
\* in which the iteration delivered them
RECURSIVE InsertByStr(_, _, _)
InsertByStr(h, x, sorted) ==
    IF sorted = <<>> THEN <<x>>
    ELSE IF LexLess(Str(h, x), Str(h, Head(sorted))) THEN <<x>> \o sorted
    ELSE <<Head(sorted)>> \o InsertByStr(h, x, Tail(sorted))

RECURSIVE SortedByStr(_, _)
SortedByStr(h, xs) ==
    IF xs = <<>> THEN <<>>
    ELSE InsertByStr(h, xs[Len(xs)], SortedByStr(h, SubSeq(xs, 1, Len(xs) - 1)))

_serialize_enum(value) ==
    PyDict(<<Entry(K_enum, PyBool(TRUE)),
             Entry(K_class, PyStr(value.cls)),
             Entry(K_module, PyStr(value.module)),
             Entry(K_value, value.value),
             Entry(K_name, PyStr(value.name))>>)

_serialize_bytes(value) ==
    LET d == Utf8Decode(value.bytes)
    IN IF d.ok THEN PyDict(<<Entry(K_bytes, PyStr(d.s))>>)
       ELSE PyDict(<<Entry(K_bytes_b64, PyStr(B64Encode(value.bytes)))>>)

RECURSIVE serialize_value(_, _, _, _)

\* [serialize_value(v, seen) for v in items]: the trees in order, or the exception
\* that ended the comprehension
RECURSIVE SerializeEach(_, _, _, _)
SerializeEach(h, items, seen, path) ==
    IF items = <<>> THEN [trees |-> <<>>, seen |-> seen, log |-> <<>>, exc |-> NoExc]
    ELSE
      LET first == serialize_value(h, Head(items), seen, path)
      IN IF IsRaise(first.tree)
         THEN [trees |-> <<>>, seen |-> first.seen, log |-> first.log, exc |-> first.tree]
         ELSE LET rest == SerializeEach(h, Tail(items), first.seen, path)
              IN [trees |-> <<first.tree>> \o rest.trees, seen |-> rest.seen,
                  log |-> first.log \o rest.log, exc |-> rest.exc]

\* _serialize_sequence without the final seen.discard(obj_id)
_serialize_sequence_keeps_id(h, value, seen, obj_id, path) ==
    LET r == SerializeEach(h, value.items, seen \cup {obj_id}, Append(path, obj_id))
    IN IF r.exc /= NoExc THEN Ret(r.exc, r.seen, r.log)
       ELSE Ret(PyList(r.trees), r.seen, r.log)

\* _serialize_sequence that hands a tuple on as a tuple
_serialize_sequence_keeps_kind(h, value, seen, obj_id, path) ==
    LET r == SerializeEach(h, value.items, seen \cup {obj_id}, Append(path, obj_id))
    IN IF r.exc /= NoExc THEN Ret(r.exc, r.seen, r.log)
       ELSE Ret([t |-> value.t, items |-> r.trees], r.seen \ {obj_id}, r.log)

\* seen.add(obj_id); encode the children; seen.discard(obj_id)
_serialize_sequence(h, value, seen, obj_id, path) ==
    LET r == SerializeEach(h, value.items, seen \cup {obj_id}, Append(path, obj_id))
    IN IF r.exc /= NoExc THEN Ret(r.exc, r.seen, r.log)
       ELSE Ret(PyList(r.trees), r.seen \ {obj_id}, r.log)

\* _serialize_dict that discards obj_id before the values are encoded
_serialize_dict_discards_first(h, value, seen, obj_id, path) ==
    LET keys == [i \in DOMAIN value.pairs |-> PyStr(Str(h, value.pairs[i][1]))]
        r == SerializeEach(h, [i \in DOMAIN value.pairs |-> value.pairs[i][2]],
                           seen \ {obj_id}, Append(path, obj_id))
    IN IF r.exc /= NoExc THEN Ret(r.exc, r.seen, r.log)
       ELSE Ret(PyDict(DictOf(keys, r.trees, <<>>)), r.seen \ {obj_id}, r.log)

_serialize_dict(h, value, seen, obj_id, path) ==
    LET keys == [i \in DOMAIN value.pairs |-> PyStr(Str(h, value.pairs[i][1]))]
        r == SerializeEach(h, [i \in DOMAIN value.pairs |-> value.pairs[i][2]],
                           seen \cup {obj_id}, Append(path, obj_id))
    IN IF r.exc /= NoExc THEN Ret(r.exc, r.seen, r.log)
       ELSE Ret(PyDict(DictOf(keys, r.trees, <<>>)), r.seen \ {obj_id}, r.log)

_serialize_set(h, value, seen, obj_id, path) ==
    LET r == SerializeEach(h, SortedByStr(h, value.items),
                           seen \cup {obj_id}, Append(path, obj_id))
    IN IF r.exc /= NoExc THEN Ret(r.exc, r.seen, r.log)
       ELSE Ret(PyDict(<<Entry(K_set, PyList(r.trees))>>), r.seen \ {obj_id}, r.log)

_serialize_frozenset(h, value, seen, obj_id, path) ==
    LET r == SerializeEach(h, SortedByStr(h, value.items),
                           seen \cup {obj_id}, Append(path, obj_id))
    IN IF r.exc /= NoExc THEN Ret(r.exc, r.seen, r.log)
       ELSE Ret(PyDict(<<Entry(K_frozenset, PyList(r.trees))>>), r.seen \ {obj_id}, r.log)

\* serialize_value without the membership test on _seen
InSeen_never(v, seen) == FALSE

\* obj_id in _seen, for a value that is not a primitive.  Only composite objects
\* ever enter _seen and two live objects never share an id, so the test is false
\* for a value that is held inline.
InSeen(v, seen) == IsRef(v) /\ v.id \in seen

serialize_value(h, v, seen, path) ==
    LET value == Deref(h, v) IN
    IF Len(path) >= RecursionLimit THEN Ret(Raise("RecursionError"), seen, <<>>)
    ELSE IF value.t = "NoneType" THEN Ret(PyNone, seen, <<>>)
    ELSE IF value = SUPPRESS THEN
        Ret(PyDict(<<Entry(K_argparse, PyStr(S_SUPPRESS))>>), seen, <<>>)
    ELSE IF value = REMAINDER THEN
        Ret(PyDict(<<Entry(K_argparse, PyStr(S_REMAINDER))>>), seen, <<>>)
    ELSE IF value.t \in {"bool", "int", "float", "str"} THEN Ret(value, seen, <<>>)
    ELSE IF InSeen(v, seen) THEN
        Ret(CircularMarker, seen, <<Visit(v.id, seen, path, TRUE)>>)
    ELSE IF value.t \in {"list", "tuple"} THEN
        LET r == _serialize_sequence(h, value, seen, v.id, path)
        IN Ret(r.tree, r.seen, <<Visit(v.id, seen, path, FALSE)>> \o r.log)
    ELSE IF value.t = "dict" THEN
        LET r == _serialize_dict(h, value, seen, v.id, path)
        IN Ret(r.tree, r.seen, <<Visit(v.id, seen, path, FALSE)>> \o r.log)
    ELSE IF value.t = "set" THEN
        LET r == _serialize_set(h, value, seen, v.id, path)
        IN Ret(r.tree, r.seen, <<Visit(v.id, seen, path, FALSE)>> \o r.log)
    ELSE IF value.t = "frozenset" THEN
        LET r == _serialize_frozenset(h, value, seen, v.id, path)
        IN Ret(r.tree, r.seen, <<Visit(v.id, seen, path, FALSE)>> \o r.log)
    ELSE IF value.t = "enum" THEN Ret(_serialize_enum(value), seen, <<>>)
    ELSE IF value.t = "bytes" THEN Ret(_serialize_bytes(value), seen, <<>>)
    ELSE IF value.t = "range" THEN
        Ret(PyDict(<<Entry(K_range,
                           PyList(<<PyInt(value.start), PyInt(value.stop), PyInt(value.step)>>))>>),
            seen, <<>>)
    ELSE IF value.t = "type" THEN
        Ret(PyDict(<<Entry(K_type, PyBool(TRUE)),
                     Entry(K_name, PyStr(value.name)),
                     Entry(K_module, PyStr(value.module))>>),
            seen, <<>>)
    ELSE
        Ret(PyDict(<<Entry(K_repr, PyStr(Repr(h, v))),
                     Entry(K_type_name, PyStr(value.type_name)),
                     Entry(K_serializable, PyBool(FALSE))>>),
            seen, <<>>)

(***************************************************************************)
(* Python ==, hash and iteration, as deserialize_value relies on them.     *)
(* The float of the model are not integral, so a float equals no int.      *)
(* An element comparison inside a container is `x is y or x == y`; a float *)
(* that passed through the codec is the same object, so two NaN elements   *)
(* of the same repr compare equal there and a bare NaN never does.         *)
(***************************************************************************)
IsNum(v) == v.t \in {"bool", "int"}
NumVal(v) == IF v.t = "bool" THEN (IF v.b THEN 1 ELSE 0) ELSE v.i

RangeLen(r) ==
    IF r.step > 0 /\ r.start < r.stop THEN (r.stop - r.start - 1) \div r.step + 1
    ELSE IF r.step < 0 /\ r.start > r.stop THEN (r.start - r.stop - 1) \div (-r.step) + 1
    ELSE 0

RangeItems(r) == [i \in 1..RangeLen(r) |-> PyInt(r.start + (i - 1) * r.step)]

RECURSIVE PyEq(_, _)
PyEqItem(a, b) == a = b \/ PyEq(a, b)

PyEq(a, b) ==
    IF IsNum(a) /\ IsNum(b) THEN NumVal(a) = NumVal(b)
    ELSE IF a.t = "float" /\ b.t = "float" THEN a.f = b.f /\ a.f /= S_nan
    ELSE IF a.t \in {"list", "tuple"} /\ a.t = b.t THEN
        /\ Len(a.items) = Len(b.items)
        /\ \A i \in DOMAIN a.items : PyEqItem(a.items[i], b.items[i])
    ELSE IF a.t = "dict" /\ b.t = "dict" THEN
        /\ Len(a.pairs) = Len(b.pairs)
        /\ \A i \in DOMAIN a.pairs : \E j \in DOMAIN b.pairs :
              /\ PyEqItem(a.pairs[i][1], b.pairs[j][1])
              /\ PyEqItem(a.pairs[i][2], b.pairs[j][2])
    ELSE IF a.t \in {"set", "frozenset"} /\ b.t \in {"set", "frozenset"} THEN
        /\ Len(a.items) = Len(b.items)
        /\ \A i \in DOMAIN a.items : \E j \in DOMAIN b.items : PyEqItem(a.items[i], b.items[j])
    ELSE IF a.t = "range" /\ b.t = "range" THEN
        /\ RangeLen(a) = RangeLen(b)
        /\ (RangeLen(a) > 0 => a.start = b.start)
        /\ (RangeLen(a) > 1 => a.step = b.step)
    ELSE a.t = b.t /\ a.t \notin {"float", "list", "tuple", "dict", "set", "frozenset", "range"}
         /\ a = b

RECURSIVE Hashable(_)
Hashable(v) ==
    IF v.t \in {"list", "dict", "set"} THEN FALSE
    ELSE IF v.t = "tuple" THEN \A i \in DOMAIN v.items : Hashable(v.items[i])
    ELSE TRUE

\* the elements a set keeps of those it is given: the first of each class of equals
RECURSIVE Dedup(_, _)
Dedup(xs, acc) ==
    IF xs = <<>> THEN acc
    ELSE IF \E i \in DOMAIN acc : PyEq(acc[i], Head(xs)) THEN Dedup(Tail(xs), acc)
    ELSE Dedup(Tail(xs), Append(acc, Head(xs)))

\* iter(x): the items an iteration of x delivers, or TypeError
Iterate(x) ==
    CASE x.t \in {"list", "tuple", "set", "frozenset"} -> PyList(x.items)
      [] x.t = "str" -> PyList([i \in DOMAIN x.s |-> PyStr(<<x.s[i]>>)])
      [] x.t = "dict" -> PyList([i \in DOMAIN x.pairs |-> x.pairs[i][1]])
      [] x.t = "bytes" -> PyList([i \in DOMAIN x.bytes |-> PyInt(x.bytes[i])])
      [] x.t = "range" -> PyList(RangeItems(x))
      [] OTHER -> Raise("TypeError")

FirstRaise(rs) ==
    rs[CHOOSE i \in DOMAIN rs : IsRaise(rs[i]) /\ \A j \in 1..(i - 1) : ~IsRaise(rs[j])]
AnyRaise(rs) == \E i \in DOMAIN rs : IsRaise(rs[i])

Has(d, k) == \E i \in DOMAIN d.pairs : d.pairs[i][1] = PyStr(k)
Get(d, k) == d.pairs[CHOOSE i \in DOMAIN d.pairs : d.pairs[i][1] = PyStr(k)][2]
GetOr(d, k, default) == IF Has(d, k) THEN Get(d, k) ELSE default
Catch(r, caught, handler) == IF IsRaise(r) /\ r.exc \in caught THEN handler ELSE r

\* range(*args)
RangeCall(args) ==
    IF Len(args) = 0 \/ Len(args) > 3 THEN Raise("TypeError")
    ELSE IF \E i \in DOMAIN args : ~IsNum(args[i]) THEN Raise("TypeError")
    ELSE IF Len(args) = 1 THEN PyRange(0, NumVal(args[1]), 1)
    ELSE IF Len(args) = 2 THEN PyRange(NumVal(args[1]), NumVal(args[2]), 1)
    ELSE IF NumVal(args[3]) = 0 THEN Raise("ValueError")
    ELSE PyRange(NumVal(args[1]), NumVal(args[2]), NumVal(args[3]))

(***************************************************************************)
(* The modules importlib can load and their attributes: the builtins the   *)
(* codec meets, argparse's SUPPRESS constant and the enum classes of the   *)
(* program under test.                                                     *)
(***************************************************************************)
Attr(m, n, o, c, ms) ==
    [t |-> "attr", module |-> m, name |-> n, obj |-> o, callable |-> c, members |-> ms]

BuiltinFunction(n) == PyObject(<<60>> \o n \o <<62>>, S_builtin_function)

ModuleAttrs ==
    { Attr(S_builtins, n, PyType(n, S_builtins), TRUE, <<>>) :
        n \in {S_int, S_float, S_str, S_bool, S_complex, S_bytes, S_bytearray} }
    \cup { Attr(S_builtins, n, BuiltinFunction(n), TRUE, <<>>) : n \in {S_ascii, S_open, S_len} }
    \cup
    { Attr(S_builtins, S_dunder_name, PyStr(S_builtins), FALSE, <<>>),
      Attr(S_argparse, S_SUPPRESS, SUPPRESS, FALSE, <<>>),
      Attr(S_argparse, S_FileType, PyType(S_FileType, S_argparse), TRUE, <<>>),
      Attr(S_pathlib, S_Path, PyType(S_Path, S_pathlib), TRUE, <<>>),
      Attr(S_test_values, S_Color, PyType(S_Color, S_test_values), TRUE,
           << <<S_RED, PyStr(S_red)>>, <<S_GREEN, PyStr(S_green)>>, <<S_BLUE, PyStr(S_blue)>> >>),
      Attr(S_test_values, S_Blob, PyType(S_Blob, S_test_values), TRUE,
           << <<S_RAW, PyBytes(<<255>>)>> >>) }

\* importlib.import_module(name)
import_module(name) ==
    IF name.t = "bytes" THEN Raise("TypeError")
    ELSE IF name.t /= "str" THEN Raise("AttributeError")
    ELSE IF name.s = <<>> THEN Raise("ValueError")
    ELSE IF name.s[1] = 46 THEN Raise("TypeError")
    ELSE IF \E a \in ModuleAttrs : a.module = name.s THEN [t |-> "module", name |-> name.s]
    ELSE Raise("ImportError")

\* getattr(module, name)
getattr(module, name) ==
    IF name.t /= "str" THEN Raise("TypeError")
    ELSE IF \E a \in ModuleAttrs : a.module = module.name /\ a.name = name.s
         THEN CHOOSE a \in ModuleAttrs : a.module = module.name /\ a.name = name.s
    ELSE Raise("AttributeError")

IsDigits(s) == s /= <<>> /\ \A i \in DOMAIN s : s[i] >= 48 /\ s[i] <= 57

RECURSIVE DigitsVal(_)
DigitsVal(s) == IF s = <<>> THEN 0 ELSE DigitsVal(SubSeq(s, 1, Len(s) - 1)) * 10 + (s[Len(s)] - 48)

\* int(x), for the arguments the model holds
IntCall(x) ==
    CASE IsNum(x) -> PyInt(NumVal(x))
      [] x.t = "str" ->
            IF IsDigits(x.s) THEN PyInt(DigitsVal(x.s))
            ELSE IF Len(x.s) > 1 /\ x.s[1] = 45 /\ IsDigits(Tail(x.s)) THEN PyInt(-DigitsVal(Tail(x.s)))
            ELSE Raise("ValueError")
      [] x.t = "float" ->
            IF x.f = S_nan THEN Raise("ValueError")
            ELSE LET dot == CHOOSE i \in DOMAIN x.f : x.f[i] = 46
                 IN PyInt(DigitsVal(SubSeq(x.f, 1, dot - 1)))
      [] OTHER -> Raise("TypeError")

\* cls(x) for an attribute fetched from a module: the enum member of value x,
\* int(x), str(x), or TypeError for an attribute that is not callable.  The call of
\* another callable yields an object the model does not look into.
CallAttr(a, x) ==
    IF a.members /= <<>> THEN
        IF \E i \in DOMAIN a.members : PyEq(a.members[i][2], x)
        THEN LET i == CHOOSE i \in DOMAIN a.members : PyEq(a.members[i][2], x)
             IN PyEnum(a.name, a.module, a.members[i][1], a.members[i][2])
        ELSE Raise("ValueError")
    ELSE IF ~a.callable THEN Raise("TypeError")
    ELSE IF a.obj = PyType(S_str, S_builtins) THEN PyStr(Str(<<>>, x))
    ELSE IF a.obj = PyType(S_int, S_builtins) THEN IntCall(x)
    ELSE PyObject(S_object_repr, a.name)

(***************************************************************************)
(* deserialize_value.  A result of type "raise" is the exception that      *)
(* left the call.                                                          *)
(***************************************************************************)
_deserialize_argparse_marker(marker) ==
    IF marker = PyStr(S_SUPPRESS) THEN SUPPRESS
    ELSE IF marker = PyStr(S_REMAINDER) THEN REMAINDER
    ELSE PyNone

_deserialize_enum(value) ==
    LET body ==
          IF ~Has(value, K_module) THEN Raise("KeyError")
          ELSE LET module == import_module(Get(value, K_module))
               IN IF IsRaise(module) THEN module
                  ELSE IF ~Has(value, K_class) THEN Raise("KeyError")
                  ELSE LET enum_class == getattr(module, Get(value, K_class))
                       IN IF IsRaise(enum_class) THEN enum_class
                          ELSE IF ~Has(value, K_value) THEN Raise("KeyError")
                          ELSE CallAttr(enum_class, Get(value, K_value))
    IN Catch(body, {"ImportError", "AttributeError", "ValueError", "KeyError"},
             GetOr(value, K_value, PyNone))

_deserialize_type(value) ==
    LET body ==
          IF ~Has(value, K_module) THEN Raise("KeyError")
          ELSE LET module == import_module(Get(value, K_module))
               IN IF IsRaise(module) THEN module
                  ELSE IF ~Has(value, K_name) THEN Raise("KeyError")
                  ELSE LET attr == getattr(module, Get(value, K_name))
                       IN IF IsRaise(attr) THEN attr ELSE attr.obj
    IN Catch(body, {"ImportError", "AttributeError", "KeyError"}, value)

RECURSIVE deserialize_value(_)

\* set(deserialize_value(v) for v in payload): each element is decoded and hashed
\* in turn; the elements kept, or the first exception
DecodedElements(payload) ==
    LET it == Iterate(payload) IN
    IF IsRaise(it) THEN it
    ELSE LET rs == [i \in DOMAIN it.items |->
                      LET d == deserialize_value(it.items[i])
                      IN IF IsRaise(d) THEN d
                         ELSE IF ~Hashable(d) THEN Raise("TypeError")
                         ELSE d]
         IN IF AnyRaise(rs) THEN FirstRaise(rs) ELSE PyList(Dedup(rs, <<>>))

_deserialize_dict(value) ==
    IF Has(value, K_argparse) THEN _deserialize_argparse_marker(Get(value, K_argparse))
    ELSE IF Has(value, K_set) THEN
        LET es == DecodedElements(Get(value, K_set))
        IN IF IsRaise(es) THEN es ELSE PySet(es.items)
    ELSE IF Has(value, K_frozenset) THEN
        LET es == DecodedElements(Get(value, K_frozenset))
        IN IF IsRaise(es) THEN es ELSE PyFrozenset(es.items)
    ELSE IF Has(value, K_bytes) THEN
        LET s == Get(value, K_bytes)
        IN IF s.t /= "str" THEN Raise("AttributeError")
           ELSE LET e == Utf8Encode(s.s)
                IN IF e.ok THEN PyBytes(e.bytes) ELSE Raise("UnicodeEncodeError")
    ELSE IF Has(value, K_bytes_b64) THEN B64Decode(Get(value, K_bytes_b64))
    ELSE IF Has(value, K_range) THEN
        LET it == Iterate(Get(value, K_range))
        IN IF IsRaise(it) THEN it ELSE RangeCall(it.items)
    ELSE IF Has(value, K_enum) THEN _deserialize_enum(value)
    ELSE IF Has(value, K_type) THEN _deserialize_type(value)
    ELSE IF Has(value, K_repr) THEN
        IF GetOr(value, K_serializable, PyNone) = PyBool(FALSE) THEN PyNone ELSE value
    ELSE IF Has(value, K_circular_ref) THEN PyNone
    ELSE LET rs == [i \in DOMAIN value.pairs |-> deserialize_value(value.pairs[i][2])]
         IN IF AnyRaise(rs) THEN FirstRaise(rs)
            ELSE PyDict([i \in DOMAIN value.pairs |-> <<value.pairs[i][1], rs[i]>>])

\* deserialize_value that returns a list as it came, its items not decoded
deserialize_value_flat(value) ==
    IF value.t = "dict" THEN _deserialize_dict(value) ELSE value

deserialize_value(value) ==
    IF value.t \in {"NoneType", "bool", "int", "float", "str"} THEN value
    ELSE IF value.t = "list" THEN
        LET rs == [i \in DOMAIN value.items |-> deserialize_value(value.items[i])]
        IN IF AnyRaise(rs) THEN FirstRaise(rs) ELSE PyList(rs)
    ELSE IF value.t = "dict" THEN _deserialize_dict(value)
    ELSE value

(***************************************************************************)
(* The heap of a value held as a tree: every container of the value is an  *)
(* object of its own, named by its position in the value, and a container  *)
(* holds its container children by reference.  id(x) is the position.      *)
(***************************************************************************)
Children(v) ==
    IF v.t = "dict" THEN [i \in DOMAIN v.pairs |-> v.pairs[i][2]] ELSE v.items

Slot(c, p) == IF IsContainer(c) THEN Ref(p) ELSE c

Shallow(v, p) ==
    IF v.t = "dict"
    THEN [v EXCEPT !.pairs = [i \in DOMAIN v.pairs |->
                                <<v.pairs[i][1], Slot(v.pairs[i][2], Append(p, i))>>]]
    ELSE [v EXCEPT !.items = [i \in DOMAIN v.items |-> Slot(v.items[i], Append(p, i))]]

RECURSIVE Objects(_, _)
Objects(v, p) ==
    IF ~IsContainer(v) THEN {}
    ELSE {<<p, Shallow(v, p)>>}
         \cup UNION {Objects(Children(v)[i], Append(p, i)) : i \in DOMAIN Children(v)}

HeapOf(v) ==
    LET os == Objects(v, <<>>)
    IN [p \in {o[1] : o \in os} |-> (CHOOSE o \in os : o[1] = p)[2]]

\* serialize_value(v), called as a client calls it: _seen is None
Encoded(v) == serialize_value(HeapOf(v), Slot(v, <<>>), {}, <<>>)

RECURSIVE Depth(_)
Depth(v) ==
    IF ~IsContainer(v) THEN 0
    ELSE LET ds == {Depth(Children(v)[i]) : i \in DOMAIN Children(v)}
         IN 1 + (IF ds = {} THEN 0 ELSE CHOOSE d \in ds : \A e \in ds : e <= d)

(***************************************************************************)
(* The values and documents the codec is driven with.                      *)
(***************************************************************************)
Unset == [t |-> "unset"]

BaseValues ==
    { PyNone, PyBool(TRUE), PyInt(2), PyInt(-1), PyFloat(S_1_5),
      PyStr(S_a), PyStr(S_2), SUPPRESS, REMAINDER,
      PyBytes(<<104, 105>>), PyBytes(<<195, 169>>), PyBytes(<<255, 254>>),
      PyRange(0, 3, 1), PyRange(1, 10, 2),
      PyType(S_int, S_builtins), PyType(S_NoneType, S_builtins),
      PyEnum(S_Color, S_test_values, S_RED, PyStr(S_red)),
      PyEnum(S_Blob, S_test_values, S_RAW, PyBytes(<<255>>)),
      PyObject(S_object_repr, S_Obj),
      PyList(<<>>), PyTuple(<<>>), PyDict(<<>>), PySet(<<>>), PyFrozenset(<<>>) }

\* the containers a program can build around a value v
Wrappers(v) ==
    { PyList(<<v>>), PyList(<<v, PyInt(2)>>), PyTuple(<<v>>), PyTuple(<<PyInt(2), v>>),
      PyDict(<< <<PyStr(S_a), v>> >>), PyDict(<< <<PyInt(2), v>> >>),
      PyDict(<< <<PyStr(K_repr), v>> >>) }
    \cup (IF Hashable(v)
          THEN {PySet(<<v>>), PyFrozenset(<<v>>)}
               \cup {PySet(<<v, x>>) : x \in {y \in {PyInt(2), PyStr(S_2)} : ~PyEq(v, y)}}
               \cup {PyFrozenset(<<x, v>>) : x \in {y \in {PyStr(S_2)} : ~PyEq(v, y)}}
          ELSE {})

\* an equal value whose top-level set iterates in another order, as another run
\* of the program (another hash seed, another insertion history) builds it
RECURSIVE Perms(_)
Perms(xs) ==
    IF xs = <<>> THEN {<<>>}
    ELSE UNION {{<<xs[i]>> \o p :
                    p \in Perms([j \in 1..(Len(xs) - 1) |-> IF j < i THEN xs[j] ELSE xs[j + 1]])}
                : i \in DOMAIN xs}

Rebuilt(v) ==
    IF v.t \in {"set", "frozenset"} THEN {[v EXCEPT !.items = p] : p \in Perms(v.items)}
    ELSE {v}

TagKeys ==
    { K_argparse, K_set, K_frozenset, K_bytes, K_bytes_b64, K_range, K_enum, K_type,
      K_repr, K_circular_ref }

Payloads ==
    { PyNone, PyBool(TRUE), PyInt(5), PyStr(S_a), PyStr(<<97, 98, 61, 99>>), PyStr(<<55296>>),
      PyList(<<>>), PyList(<<PyInt(1), PyInt(2), PyInt(0)>>),
      PyList(<<PyList(<<PyInt(2)>>)>>), PyDict(<< <<PyStr(S_a), PyInt(2)>> >>) }

EnumDocs ==
    { PyDict(<<Entry(K_enum, PyBool(TRUE)), Entry(K_class, c), Entry(K_module, m),
               Entry(K_value, x)>>) :
        c \in {PyStr(S_Color), PyStr(S_missing), PyStr(S_SUPPRESS), PyInt(5)},
        m \in {PyStr(S_test_values), PyStr(S_argparse), PyStr(S_missing), PyStr(<<46, 97>>)},
        x \in {PyStr(S_red), PyInt(5)} }

TypeDocs ==
    { PyDict(<<Entry(K_type, PyBool(TRUE)), Entry(K_name, n), Entry(K_module, m)>>) :
        n \in {PyStr(S_int), PyStr(S_missing), PyInt(5)},
        m \in {PyStr(S_builtins), PyStr(S_missing), PyStr(<<>>)} }

Documents ==
    LET tagged == {PyDict(<<Entry(k, p)>>) : k \in TagKeys, p \in Payloads}
                  \cup EnumDocs \cup TypeDocs
                  \cup {PyDict(<<Entry(K_repr, PyStr(S_a)), Entry(K_serializable, x)>>) :
                           x \in {PyBool(FALSE), PyInt(0)}}
    IN tagged \cup {PyList(<<d>>) : d \in tagged}
              \cup {PyDict(<<Entry(S_a, d)>>) : d \in tagged}

(***************************************************************************)
(* The codec specification: a program builds a value, serialize_value      *)
(* encodes it (twice, the second time an equal value of another run) and   *)
(* deserialize_value decodes the tree; or a tree arrives in a document.    *)
(***************************************************************************)
GraphIdle == heap = <<>> /\ enc = Unset /\ gpc = "idle"
LoaderIdle ==
    /\ document = Unset /\ load_strict = FALSE /\ restored = Unset /\ cmdline = <<>>
    /\ namespace = Unset /\ lpc = "idle"
DumperIdle == original = Unset /\ with_env = FALSE /\ twin = Unset
RegistryIdle ==
    /\ converter = Unset /\ type_info = Unset /\ file_type_info = Unset /\ strict = TRUE
    /\ resolved = Unset /\ rpc = "idle"

CodecInit ==
    /\ val \in BaseValues \cup {Unset}
    /\ tree = Unset /\ tree2 = Unset /\ out = Unset
    /\ pc = "input"
    /\ GraphIdle /\ RegistryIdle /\ LoaderIdle /\ DumperIdle

Nest ==
    /\ pc = "input" /\ val /= Unset /\ Depth(val) < MaxDepth
    /\ val' \in Wrappers(val)
    /\ UNCHANGED <<tree, tree2, out, pc, graphVars, registryVars, loaderVars, dumperVars>>

Encode ==
    /\ pc = "input" /\ val /= Unset
    /\ tree' = Encoded(val).tree
    /\ pc' = "encoded"
    /\ UNCHANGED <<val, tree2, out, graphVars, registryVars, loaderVars, dumperVars>>

EncodeAgain ==
    /\ pc = "encoded" /\ val /= Unset /\ tree2 = Unset
    /\ \E v \in Rebuilt(val) : tree2' = Encoded(v).tree
    /\ UNCHANGED <<val, tree, out, pc, graphVars, registryVars, loaderVars, dumperVars>>

Receive ==
    /\ pc = "input" /\ val = Unset
    /\ tree' \in Documents
    /\ pc' = "encoded"
    /\ UNCHANGED <<val, tree2, out, graphVars, registryVars, loaderVars, dumperVars>>

Decode ==
    /\ pc = "encoded"
    /\ out' = deserialize_value(tree)
    /\ pc' = "decoded"
    /\ UNCHANGED <<val, tree, tree2, graphVars, registryVars, loaderVars, dumperVars>>

CodecNext == Nest \/ Encode \/ EncodeAgain \/ Receive \/ Decode
SpecCodec == CodecInit /\ [][CodecNext]_vars

(***************************************************************************)
(* Claims about the codec.                                                 *)
(***************************************************************************)
IsPrimitive(v) == v.t \in {"NoneType", "bool", "int", "float", "str"}

\* the values C1 speaks of: primitives, sequences, mappings, bytes, ranges and
\* built-in types, nested
RECURSIVE InC1Scope(_)
InC1Scope(v) ==
    \/ IsPrimitive(v)
    \/ v.t \in {"bytes", "range"}
    \/ v.t = "type" /\ v.module = S_builtins
    \/ v.t \in {"list", "tuple"} /\ \A i \in DOMAIN v.items : InC1Scope(v.items[i])
    \/ v.t = "dict" /\ \A i \in DOMAIN v.pairs :
            IsPrimitive(v.pairs[i][1]) /\ InC1Scope(v.pairs[i][2])

\* C1: deserialize_value(serialize_value(v)) == v for every primitive, sequence
\* (list or tuple), mapping, byte sequence, range and built-in type v, nested.
C1_RoundTrip ==
    (pc = "decoded" /\ val /= Unset /\ InC1Scope(val))
        => (~IsRaise(out) /\ PyEq(out, val))

\* the values of C1 that the codec does carry: no tuple, no NaN, mappings keyed by
\* str other than the reserved tag keys, types that builtins exports by name
RECURSIVE InRoundTripScope(_)
InRoundTripScope(v) ==
    \/ v.t \in {"NoneType", "bool", "int", "str", "bytes", "range"}
    \/ v.t = "float" /\ v.f /= S_nan
    \/ v.t = "type" /\ v.module = S_builtins
          /\ \E a \in ModuleAttrs : a.module = S_builtins /\ a.name = v.name /\ a.obj = v
    \/ v.t = "list" /\ \A i \in DOMAIN v.items : InRoundTripScope(v.items[i])
    \/ v.t = "dict" /\ \A i \in DOMAIN v.pairs :
            /\ v.pairs[i][1].t = "str"
            /\ v.pairs[i][1].s \notin TagKeys
            /\ InRoundTripScope(v.pairs[i][2])

\* C1, for the values the codec carries: deserialize_value(serialize_value(v)) == v
\* for every value built of None, bool, int, float other than NaN, str, bytes,
\* range, the types builtins exports, lists, and dicts whose keys are str and no
\* reserved tag key.
C1_RoundTripAmended ==
    (pc = "decoded" /\ val /= Unset /\ InRoundTripScope(val))
        => (~IsRaise(out) /\ PyEq(out, val))

C1_Witness ==
    /\ pc = "decoded"
    /\ val = PyList(<<PyDict(<< <<PyStr(S_a), PyBytes(<<255, 254>>)>> >>)>>)
    /\ tree = PyList(<<PyDict(<<Entry(S_a,
                 PyDict(<<Entry(K_bytes_b64, PyStr(<<47, 47, 52, 61>>))>>))>>)>>)
    /\ out = val

\* C5: deserialize_value never raises, whatever JSON tree it is given.
C5_DecodeTotal == pc = "decoded" => ~IsRaise(out)

\* the sets C8 speaks of: elements that are primitives, or tuples and frozensets
\* of such elements
RECURSIVE IsPlainElement(_)
IsPlainElement(v) ==
    \/ v.t \in {"NoneType", "bool", "int", "str"}
    \/ v.t = "float" /\ v.f /= S_nan
    \/ v.t \in {"tuple", "frozenset"} /\ \A i \in DOMAIN v.items : IsPlainElement(v.items[i])

\* C8: deserialize_value(serialize_value(s)) == s for every set and frozenset s, of
\* the same type, also when the elements are tuples or frozensets.
C8_SetRoundTrip ==
    (/\ pc = "decoded" /\ val /= Unset
     /\ val.t \in {"set", "frozenset"}
     /\ \A i \in DOMAIN val.items : IsPlainElement(val.items[i]))
        => (~IsRaise(out) /\ out.t = val.t /\ PyEq(out, val))

\* C9: two encodes of equal sets produce identical trees, whatever the iteration
\* order of the sets.
C9_Deterministic ==
    (tree2 /= Unset /\ val.t \in {"set", "frozenset"}) => tree2 = tree

RECURSIVE IsJson(_)
IsJson(v) ==
    \/ IsPrimitive(v)
    \/ v.t = "list" /\ \A i \in DOMAIN v.items : IsJson(v.items[i])
    \/ v.t = "dict" /\ \A i \in DOMAIN v.pairs :
            v.pairs[i][1].t = "str" /\ IsJson(v.pairs[i][2])

\* C10: the tree serialize_value returns consists of mappings with str keys,
\* arrays, strings, numbers, booleans and null only, tagged payloads included.
C10_JsonCompatible == (val /= Unset /\ tree /= Unset) => IsJson(tree)

(***************************************************************************)
(* The graph specification: a program allocates containers, links them     *)
(* (possibly into cycles and shared children) and hands one of them to     *)
(* serialize_value.  Object i is of one of the kinds ObjKinds[i]; id(x) is *)
(* the index of x in the heap.                                             *)
(***************************************************************************)
ObjKinds == << {"list"}, {"dict"}, {"tuple", "set"} >>
NumObjs == Len(ObjKinds)
ObjIds == 1..NumObjs

EmptyObj(k) == IF k = "dict" THEN PyDict(<<>>) ELSE [t |-> k, items |-> <<>>]
SlotValues == {PyInt(2)} \cup {Ref(i) : i \in ObjIds}
DictKeys == <<PyStr(S_a), PyStr(S_b)>>

RECURSIVE SumLen(_, _)
SumLen(h, i) == IF i = 0 THEN 0 ELSE Len(Children(h[i])) + SumLen(h, i - 1)
Refs(h) == SumLen(h, NumObjs)
Referenced(h, o) == \E i \in ObjIds : \E k \in DOMAIN Children(h[i]) : Children(h[i])[k] = Ref(o)

\* hash(x) succeeds: x is no list, dict or set and, when a tuple, holds only
\* hashable items (a tuple never lies on a cycle of tuples alone)
RECURSIVE HeapHashable(_, _)
HeapHashable(h, x) ==
    LET o == Deref(h, x) IN
    IF o.t \in {"list", "dict", "set"} THEN FALSE
    ELSE IF o.t \in {"tuple", "frozenset"} THEN \A k \in DOMAIN o.items : HeapHashable(h, o.items[k])
    ELSE TRUE

CodecIdle == val = Unset /\ tree = Unset /\ tree2 = Unset /\ out = Unset /\ pc = "idle"

GraphInit ==
    /\ heap \in {[i \in ObjIds |-> EmptyObj(ks[i])] :
                    ks \in {f \in [ObjIds -> {"list", "dict", "tuple", "set"}] :
                               \A i \in ObjIds : f[i] \in ObjKinds[i]}}
    /\ enc = Unset
    /\ gpc = "build"
    /\ CodecIdle /\ RegistryIdle /\ LoaderIdle /\ DumperIdle

\* o.append(x)
ListAppend(o, x) ==
    /\ gpc = "build" /\ heap[o].t = "list" /\ Refs(heap) < MaxRefs
    /\ heap' = [heap EXCEPT ![o].items = Append(@, x)]
    /\ UNCHANGED <<enc, gpc, codecVars, registryVars, loaderVars, dumperVars>>

\* o[k] = x, for a key k that o does not hold yet
DictSetItem(o, x) ==
    /\ gpc = "build" /\ heap[o].t = "dict" /\ Refs(heap) < MaxRefs
    /\ Len(heap[o].pairs) < Len(DictKeys)
    /\ heap' = [heap EXCEPT ![o].pairs = Append(@, <<DictKeys[Len(@) + 1], x>>)]
    /\ UNCHANGED <<enc, gpc, codecVars, registryVars, loaderVars, dumperVars>>

\* o = (x, ...): a tuple gets its items when it is created, before anything can
\* refer to it
MakeTuple(o, xs) ==
    /\ gpc = "build" /\ heap[o].t = "tuple" /\ heap[o].items = <<>>
    /\ ~Referenced(heap, o)
    /\ xs /= <<>> /\ Refs(heap) + Len(xs) <= MaxRefs
    /\ \A k \in DOMAIN xs : xs[k] /= Ref(o)
    /\ heap' = [heap EXCEPT ![o].items = xs]
    /\ UNCHANGED <<enc, gpc, codecVars, registryVars, loaderVars, dumperVars>>

\* o.add(x)
SetAdd(o, x) ==
    /\ gpc = "build" /\ heap[o].t = "set" /\ Refs(heap) < MaxRefs
    /\ HeapHashable(heap, x)
    /\ \A k \in DOMAIN heap[o].items : heap[o].items[k] /= x
    /\ heap' = [heap EXCEPT ![o].items = Append(@, x)]
    /\ UNCHANGED <<enc, gpc, codecVars, registryVars, loaderVars, dumperVars>>

\* serialize_value(o)
GraphEncode(o) ==
    /\ gpc = "build"
    /\ enc' = serialize_value(heap, Ref(o), {}, <<>>)
    /\ gpc' = "encoded"
    /\ UNCHANGED <<heap, codecVars, registryVars, loaderVars, dumperVars>>

GraphNext ==
    \/ \E o \in ObjIds, x \in SlotValues : ListAppend(o, x)
    \/ \E o \in ObjIds, x \in SlotValues : DictSetItem(o, x)
    \/ \E o \in ObjIds, x \in SlotValues : MakeTuple(o, <<x>>)
    \/ \E o \in ObjIds, x \in SlotValues, y \in SlotValues : MakeTuple(o, <<x, y>>)
    \/ \E o \in ObjIds, x \in {PyInt(2), PyStr(S_2)} \cup {Ref(i) : i \in ObjIds} : SetAdd(o, x)
    \/ \E o \in ObjIds : GraphEncode(o)

SpecGraph == GraphInit /\ [][GraphNext]_vars

Range(s) == {s[i] : i \in DOMAIN s}

RECURSIVE MarkersToNone(_)
MarkersToNone(v) ==
    IF v = CircularMarker THEN PyNone
    ELSE IF v.t = "list" THEN [v EXCEPT !.items = [i \in DOMAIN @ |-> MarkersToNone(@[i])]]
    ELSE IF v.t = "dict"
         THEN [v EXCEPT !.pairs = [i \in DOMAIN @ |-> <<@[i][1], MarkersToNone(@[i][2])>>]]
    ELSE v

RECURSIVE HoldsMarker(_)
HoldsMarker(v) ==
    \/ v = CircularMarker
    \/ IsContainer(v) /\ \E i \in DOMAIN Children(v) : HoldsMarker(Children(v)[i])

\* C6: serialize_value terminates on every graph of lists, tuples, dicts and sets,
\* cycles included: no object is entered twice on one path, every reference back to
\* an object being encoded becomes the circular marker, and the marker decodes to
\* None, so the decoded value is finite and holds no marker.
C6_CyclesTerminate ==
    gpc = "encoded" =>
        /\ ~IsRaise(enc.tree)
        /\ \A k \in DOMAIN enc.log :
              /\ Len(enc.log[k].path) <= NumObjs
              /\ \A i, j \in DOMAIN enc.log[k].path :
                    i /= j => enc.log[k].path[i] /= enc.log[k].path[j]
              /\ (enc.log[k].id \in Range(enc.log[k].path) => enc.log[k].marker)
        /\ deserialize_value(CircularMarker) = PyNone
        /\ deserialize_value(enc.tree) = deserialize_value(MarkersToNone(enc.tree))
        /\ ~HoldsMarker(deserialize_value(enc.tree))

\* a dict that holds a list that holds the dict, encoded from the dict
C6_Witness ==
    /\ gpc = "encoded"
    /\ heap[2].pairs = << <<PyStr(S_a), Ref(1)>> >>
    /\ heap[1].items = <<Ref(2)>>
    /\ enc.tree = PyDict(<<Entry(S_a, PyList(<<CircularMarker>>))>>)
    /\ deserialize_value(enc.tree) = PyDict(<<Entry(S_a, PyList(<<PyNone>>))>>)

\* C7: the circular marker is emitted for a composite exactly when the composite is
\* on the path from the root to the reference; an object referenced from two
\* positions of which neither is inside the other is encoded in full at both.
C7_MarkerIffAncestor ==
    gpc = "encoded" =>
        \A k \in DOMAIN enc.log :
            enc.log[k].marker <=> enc.log[k].id \in Range(enc.log[k].path)

\* a list that holds the same dict twice: both slots are encoded in full
C7_Witness ==
    /\ gpc = "encoded"
    /\ heap[1].items = <<Ref(2), Ref(2)>>
    /\ heap[2].pairs = << <<PyStr(S_a), PyInt(2)>> >>
    /\ enc.tree = PyList(<<PyDict(<<Entry(S_a, PyInt(2))>>), PyDict(<<Entry(S_a, PyInt(2))>>)>>)
    /\ \E j, k \in DOMAIN enc.log :
          j /= k /\ enc.log[j].id = 2 /\ enc.log[k].id = 2
          /\ ~enc.log[j].marker /\ ~enc.log[k].marker

(***************************************************************************)
(* The type registry: resolve_type turns a TypeInfo (and, for the file     *)
(* converter, a FileTypeInfo) back into a callable.  A callable is the     *)
(* object a module exports, or the argparse.FileType instance built here.  *)
(***************************************************************************)
TypeInfo(name, module, builtin, serializable) ==
    [t |-> "TypeInfo", name |-> name, module |-> module,
     builtin |-> builtin, serializable |-> serializable]

FileTypeInfo(mode, bufsize, encoding, errors) ==
    [t |-> "FileTypeInfo", mode |-> mode, bufsize |-> bufsize,
     encoding |-> encoding, errors |-> errors]

\* argparse.FileType(mode, bufsize, encoding, errors)
FileType(mode, bufsize, encoding, errors) ==
    [t |-> "FileType", mode |-> mode, bufsize |-> bufsize,
     encoding |-> encoding, errors |-> errors]

UnresolvableTypeError(why) == [t |-> "raise", exc |-> "UnresolvableTypeError", why |-> why]

_BUILTIN_CONVERTERS ==
    [n \in {S_int, S_float, S_str, S_bool, S_complex, S_bytes, S_bytearray, S_ascii} |->
        IF n = S_ascii THEN BuiltinFunction(n) ELSE PyType(n, S_builtins)]

\* _resolve_file_type that builds the converter from the defaults, whatever
\* parameters it is handed
_resolve_file_type_defaults(ti, fti) ==
    IF ti.name = S_FileType /\ ti.module = PyStr(S_argparse)
    THEN FileType(S_r, -1, PyNone, PyNone)
    ELSE PyNone

_resolve_file_type(ti, fti) ==
    IF ti.name = S_FileType /\ ti.module = PyStr(S_argparse)
    THEN IF fti /= PyNone
         THEN FileType(fti.mode, fti.bufsize, fti.encoding, fti.errors)
         ELSE FileType(S_r, -1, PyNone, PyNone)
    ELSE PyNone

\* _resolve_builtin that answers every name of the table with the converter str
_resolve_builtin_as_str(ti, is_strict) ==
    IF ~ti.builtin THEN PyNone
    ELSE IF ti.name \in DOMAIN _BUILTIN_CONVERTERS THEN _BUILTIN_CONVERTERS[S_str]
    ELSE PyNone

_resolve_builtin(ti, is_strict) ==
    IF ~ti.builtin THEN PyNone
    ELSE IF ti.name \in DOMAIN _BUILTIN_CONVERTERS THEN _BUILTIN_CONVERTERS[ti.name]
    ELSE PyNone

\* an exception other than ImportError and AttributeError leaves the function
_resolve_by_import(ti, is_strict) ==
    IF ti.module = PyNone \/ ti.module = PyStr(<<>>) \/ ~ti.serializable THEN PyNone
    ELSE
      LET module == import_module(ti.module)
          attr == IF IsRaise(module) THEN module ELSE getattr(module, PyStr(ti.name))
      IN IF IsRaise(attr)
         THEN IF attr.exc \in {"ImportError", "AttributeError"}
              THEN IF is_strict THEN UnresolvableTypeError("could not import") ELSE PyNone
              ELSE attr
         ELSE IF attr.callable THEN attr.obj
         ELSE IF is_strict THEN UnresolvableTypeError("not callable")
         ELSE PyNone

\* _resolve_from_builtins_module that finds nothing
_resolve_from_builtins_module_blind(ti) == PyNone

_resolve_from_builtins_module(ti) ==
    LET attr == getattr([t |-> "module", name |-> S_builtins], PyStr(ti.name))
    IN IF ~IsRaise(attr) /\ attr.callable THEN attr.obj ELSE PyNone

\* the chain of strategies: the first result that is not None, or the exception
\* a strategy raised
Strategies(ti, fti, is_strict) ==
    LET r1 == _resolve_file_type(ti, fti) IN
    IF r1 /= PyNone THEN r1 ELSE
    LET r2 == _resolve_builtin(ti, is_strict) IN
    IF r2 /= PyNone THEN r2 ELSE
    LET r3 == _resolve_by_import(ti, is_strict) IN
    IF r3 /= PyNone THEN r3 ELSE
    _resolve_from_builtins_module(ti)

\* resolve_type that looks at the serializable flag only after the strategies
resolve_type_flag_last(ti, fti, is_strict) ==
    IF ti = PyNone THEN PyNone
    ELSE
      LET result == Strategies(ti, fti, is_strict)
      IN IF result /= PyNone THEN result
         ELSE IF is_strict
              THEN UnresolvableTypeError(IF ti.serializable THEN "could not resolve"
                                         ELSE "marked as non-serializable")
         ELSE PyNone

resolve_type(ti, fti, is_strict) ==
    IF ti = PyNone THEN PyNone
    ELSE IF ~ti.serializable
         THEN IF is_strict THEN UnresolvableTypeError("marked as non-serializable") ELSE PyNone
    ELSE
      LET result == Strategies(ti, fti, is_strict)
      IN IF result /= PyNone THEN result
         ELSE IF is_strict THEN UnresolvableTypeError("could not resolve")
         ELSE PyNone

\* bool(v)
Truthy(v) ==
    CASE v.t = "NoneType" -> FALSE
      [] v.t = "bool" -> v.b
      [] v.t = "int" -> v.i /= 0
      [] v.t = "str" -> v.s /= <<>>
      [] v.t \in {"list", "tuple", "set", "frozenset"} -> v.items /= <<>>
      [] v.t = "dict" -> v.pairs /= <<>>
      [] OTHER -> TRUE

_BUILTIN_TYPES == {PyType(n, S_builtins) :
                     n \in {S_int, S_float, S_str, S_bool, S_complex, S_bytes, S_bytearray}}

\* a function object: a lambda or a def
PyFunction(name, module) == [t |-> "function", name |-> name, module |-> module]

\* type_func.__name__ and type_func.__module__
NameOf(f) ==
    CASE f.t \in {"type", "function"} -> PyStr(f.name)
      [] f.t = "object" /\ f.type_name = S_builtin_function ->
            PyStr(SubSeq(f.repr, 2, Len(f.repr) - 1))
      [] OTHER -> PyNone
ModuleOf(f) ==
    CASE f.t = "type" -> PyStr(f.module)
      [] f.t = "function" -> f.module
      [] f.t = "object" /\ f.type_name = S_builtin_function -> PyStr(S_builtins)
      [] OTHER -> PyNone

type_info_from_callable(type_func) ==
    IF type_func = PyNone THEN PyNone
    ELSE IF type_func \in _BUILTIN_TYPES THEN TypeInfo(type_func.name, PyNone, TRUE, TRUE)
    ELSE IF type_func = BuiltinFunction(S_ascii) THEN TypeInfo(S_ascii, PyNone, TRUE, TRUE)
    ELSE IF type_func = BuiltinFunction(S_open) THEN TypeInfo(S_open, PyNone, TRUE, FALSE)
    ELSE IF type_func.t = "FileType" THEN TypeInfo(S_FileType, PyStr(S_argparse), FALSE, TRUE)
    ELSE LET name == NameOf(type_func)
             module == ModuleOf(type_func)
         IN IF name = PyStr(S_lambda) THEN TypeInfo(S_lambda, module, FALSE, FALSE)
            ELSE IF Truthy(name)
            THEN TypeInfo(name.s, module, FALSE, module /= PyNone /\ name.s[1] /= 60)
            ELSE TypeInfo(Repr(<<>>, type_func), module, FALSE, FALSE)

file_type_info_from_instance(file_type) ==
    FileTypeInfo(file_type.mode, file_type.bufsize, file_type.encoding, file_type.errors)

_extract_type_info(action) ==
    IF action.type = PyNone THEN <<PyNone, PyNone>>
    ELSE IF action.type.t = "FileType"
    THEN <<TypeInfo(S_FileType, PyStr(S_argparse), FALSE, TRUE),
           file_type_info_from_instance(action.type)>>
    ELSE <<type_info_from_callable(action.type), PyNone>>

TypeNames ==
    {S_int, S_float, S_str, S_bool, S_complex, S_bytes, S_bytearray, S_ascii, S_open, S_len,
     S_dunder_name, S_FileType, S_Path, S_SUPPRESS, S_NonExistent, S_lambda}
TypeModules ==
    {PyNone, PyStr(<<>>), PyStr(S_builtins), PyStr(S_argparse), PyStr(S_pathlib),
     PyStr(S_nonexistent_module), PyStr(S_rel_module)}
TypeInfos ==
    {TypeInfo(n, m, b, s) : n \in TypeNames, m \in TypeModules, b \in BOOLEAN, s \in BOOLEAN}
FileTypeInfos ==
    {FileTypeInfo(S_r, -1, PyNone, PyNone), FileTypeInfo(S_w, -1, PyStr(S_utf_8), PyNone)}

\* the callables a program passes as type=
Converters ==
    {_BUILTIN_CONVERTERS[n] : n \in DOMAIN _BUILTIN_CONVERTERS}
    \cup {BuiltinFunction(S_open), BuiltinFunction(S_len), PyType(S_Path, S_pathlib),
          PyFunction(S_lambda, PyStr(S_test_values)), FileType(S_r, -1, PyNone, PyNone)}

\* either a TypeInfo read from a document, or a callable whose TypeInfo is still
\* to be extracted
RegistryInit ==
    /\ \/ /\ rpc = "call"
          /\ converter = Unset
          /\ type_info \in TypeInfos \cup {PyNone}
          /\ file_type_info \in FileTypeInfos \cup {PyNone}
       \/ /\ rpc = "extract"
          /\ converter \in Converters
          /\ type_info = Unset
          /\ file_type_info = Unset
    /\ strict \in BOOLEAN
    /\ resolved = Unset
    /\ CodecIdle /\ GraphIdle /\ LoaderIdle /\ DumperIdle

\* type_info, file_type_info = _extract_type_info(action), action.type = converter
Extract ==
    /\ rpc = "extract"
    /\ LET extracted == _extract_type_info([type |-> converter])
       IN type_info' = extracted[1] /\ file_type_info' = extracted[2]
    /\ rpc' = "call"
    /\ UNCHANGED <<converter, strict, resolved, codecVars, graphVars, loaderVars, dumperVars>>

\* resolved = resolve_type(type_info, file_type_info, strict=strict)
Resolve ==
    /\ rpc = "call"
    /\ resolved' = resolve_type(type_info, file_type_info, strict)
    /\ rpc' = "returned"
    /\ UNCHANGED <<converter, type_info, file_type_info, strict,
                   codecVars, graphVars, loaderVars, dumperVars>>

RegistryNext == Extract \/ Resolve

SpecRegistry == RegistryInit /\ [][RegistryNext]_vars

Returned == rpc = "returned" /\ type_info /= PyNone
Failed == IF strict THEN IsRaise(resolved) /\ resolved.exc = "UnresolvableTypeError"
          ELSE resolved = PyNone

\* C2: a TypeInfo with serializable = False is never resolved, whatever its name,
\* module and builtin flag and whatever FileTypeInfo comes with it: strict mode
\* raises UnresolvableTypeError, lenient mode returns None.  The flag is looked at
\* before the table of builtin converters, so a builtin marked unserializable is
\* rejected as well.
C2_UnserializableFails ==
    (Returned /\ ~type_info.serializable) =>
        /\ Failed
        /\ strict => resolved.why = "marked as non-serializable"

\* open, builtin and marked unserializable, resolved in strict mode
C2_Witness ==
    /\ Returned /\ strict
    /\ type_info = TypeInfo(S_open, PyNone, TRUE, FALSE)
    /\ resolved = UnresolvableTypeError("marked as non-serializable")

IsFileTypeRef == type_info.name = S_FileType /\ type_info.module = PyStr(S_argparse)
BuiltFromParams ==
    resolved = IF file_type_info = PyNone THEN FileType(S_r, -1, PyNone, PyNone)
               ELSE FileType(file_type_info.mode, file_type_info.bufsize,
                             file_type_info.encoding, file_type_info.errors)

\* C3 as stated: a reference to argparse.FileType is resolved in both modes and
\* whatever its serializable flag, to a FileType built from the FileTypeInfo or from
\* the defaults.
C3_FileTypeAlways == (Returned /\ IsFileTypeRef) => BuiltFromParams

\* C3: a reference to argparse.FileType whose serializable flag is True is resolved
\* in both modes to a FileType built from the FileTypeInfo, or from the defaults
\* when there is none; with the flag False the reference fails like any other,
\* since the flag is looked at before this strategy.
C3_FileTypeWhenSerializable ==
    (Returned /\ IsFileTypeRef) =>
        IF type_info.serializable THEN BuiltFromParams ELSE Failed

\* FileType("w", encoding="utf-8") rebuilt in lenient mode
C3_Witness ==
    /\ Returned /\ ~strict /\ IsFileTypeRef /\ type_info.serializable
    /\ file_type_info = FileTypeInfo(S_w, -1, PyStr(S_utf_8), PyNone)
    /\ resolved = FileType(S_w, -1, PyStr(S_utf_8), PyNone)

HasOrigin == type_info.module \notin {PyNone, PyStr(<<>>)}
ImportFails ==
    LET module == import_module(type_info.module)
        attr == IF IsRaise(module) THEN module ELSE getattr(module, PyStr(type_info.name))
    IN IsRaise(attr) \/ ~attr.callable

\* C4: for a serializable reference that neither the FileType strategy nor the
\* builtin table resolves and that names an origin module, a module that cannot be
\* imported, a missing attribute or an attribute that is not callable makes
\* resolve_type raise UnresolvableTypeError in strict mode and return None in
\* lenient mode, for every name.
C4_ImportFailureFails ==
    (/\ Returned /\ type_info.serializable /\ HasOrigin
     /\ _resolve_file_type(type_info, file_type_info) = PyNone
     /\ _resolve_builtin(type_info, strict) = PyNone
     /\ ImportFails)
        => Failed

(***************************************************************************)
(* The document model: load turns a JSON object into ParserInfo,           *)
(* ActionInfo, TypeInfo, FileTypeInfo, ArgumentGroup and                   *)
(* MutualExclusionGroup objects (_convert_parser_info,                     *)
(* _convert_action_info) and replays them on argparse.                     *)
(***************************************************************************)
F_prog == <<112, 114, 111, 103>>  \* "prog"
F_description == <<100, 101, 115, 99, 114, 105, 112, 116, 105, 111, 110>>  \* "description"
F_epilog == <<101, 112, 105, 108, 111, 103>>  \* "epilog"
F_usage == <<117, 115, 97, 103, 101>>  \* "usage"
F_add_help == <<97, 100, 100, 95, 104, 101, 108, 112>>  \* "add_help"
F_allow_abbrev == <<97, 108, 108, 111, 119, 95, 97, 98, 98, 114, 101, 118>>  \* "allow_abbrev"
F_formatter_class == <<102, 111, 114, 109, 97, 116, 116, 101, 114, 95, 99, 108, 97, 115, 115>>  \* "formatter_class"
F_prefix_chars == <<112, 114, 101, 102, 105, 120, 95, 99, 104, 97, 114, 115>>  \* "prefix_chars"
F_fromfile_prefix_chars == <<102, 114, 111, 109, 102, 105, 108, 101, 95, 112, 114, 101, 102, 105, 120, 95, 99, 104, 97, 114, 115>>  \* "fromfile_prefix_chars"
F_argument_default == <<97, 114, 103, 117, 109, 101, 110, 116, 95, 100, 101, 102, 97, 117, 108, 116>>  \* "argument_default"
F_conflict_handler == <<99, 111, 110, 102, 108, 105, 99, 116, 95, 104, 97, 110, 100, 108, 101, 114>>  \* "conflict_handler"
F_exit_on_error == <<101, 120, 105, 116, 95, 111, 110, 95, 101, 114, 114, 111, 114>>  \* "exit_on_error"
F_suggest_on_error == <<115, 117, 103, 103, 101, 115, 116, 95, 111, 110, 95, 101, 114, 114, 111, 114>>  \* "suggest_on_error"
F_color == <<99, 111, 108, 111, 114>>  \* "color"
F_actions == <<97, 99, 116, 105, 111, 110, 115>>  \* "actions"
F_argument_groups == <<97, 114, 103, 117, 109, 101, 110, 116, 95, 103, 114, 111, 117, 112, 115>>  \* "argument_groups"
F_mutually_exclusive_groups == <<109, 117, 116, 117, 97, 108, 108, 121, 95, 101, 120, 99, 108, 117, 115, 105, 118, 101, 95, 103, 114, 111, 117, 112, 115>>  \* "mutually_exclusive_groups"
F_option_strings == <<111, 112, 116, 105, 111, 110, 95, 115, 116, 114, 105, 110, 103, 115>>  \* "option_strings"
F_dest == <<100, 101, 115, 116>>  \* "dest"
F_action_type == <<97, 99, 116, 105, 111, 110, 95, 116, 121, 112, 101>>  \* "action_type"
F_nargs == <<110, 97, 114, 103, 115>>  \* "nargs"
F_const == <<99, 111, 110, 115, 116>>  \* "const"
F_default == <<100, 101, 102, 97, 117, 108, 116>>  \* "default"
F_type_info == <<116, 121, 112, 101, 95, 105, 110, 102, 111>>  \* "type_info"
F_file_type_info == <<102, 105, 108, 101, 95, 116, 121, 112, 101, 95, 105, 110, 102, 111>>  \* "file_type_info"
F_choices == <<99, 104, 111, 105, 99, 101, 115>>  \* "choices"
F_required == <<114, 101, 113, 117, 105, 114, 101, 100>>  \* "required"
F_help == <<104, 101, 108, 112>>  \* "help"
F_metavar == <<109, 101, 116, 97, 118, 97, 114>>  \* "metavar"
F_deprecated == <<100, 101, 112, 114, 101, 99, 97, 116, 101, 100>>  \* "deprecated"
F_version == <<118, 101, 114, 115, 105, 111, 110>>  \* "version"
F_subparsers == <<115, 117, 98, 112, 97, 114, 115, 101, 114, 115>>  \* "subparsers"
F_subparsers_title == <<115, 117, 98, 112, 97, 114, 115, 101, 114, 115, 95, 116, 105, 116, 108, 101>>  \* "subparsers_title"
F_subparsers_description == <<115, 117, 98, 112, 97, 114, 115, 101, 114, 115, 95, 100, 101, 115, 99, 114, 105, 112, 116, 105, 111, 110>>  \* "subparsers_description"
F_subparsers_dest == <<115, 117, 98, 112, 97, 114, 115, 101, 114, 115, 95, 100, 101, 115, 116>>  \* "subparsers_dest"
F_subparsers_required == <<115, 117, 98, 112, 97, 114, 115, 101, 114, 115, 95, 114, 101, 113, 117, 105, 114, 101, 100>>  \* "subparsers_required"
F_subparsers_aliases == <<115, 117, 98, 112, 97, 114, 115, 101, 114, 115, 95, 97, 108, 105, 97, 115, 101, 115>>  \* "subparsers_aliases"
F_custom_action_class == <<99, 117, 115, 116, 111, 109, 95, 97, 99, 116, 105, 111, 110, 95, 99, 108, 97, 115, 115>>  \* "custom_action_class"
F_title == <<116, 105, 116, 108, 101>>  \* "title"
F_builtin == <<98, 117, 105, 108, 116, 105, 110>>  \* "builtin"
F_serializable == <<115, 101, 114, 105, 97, 108, 105, 122, 97, 98, 108, 101>>  \* "serializable"
F_mode == <<109, 111, 100, 101>>  \* "mode"
F_bufsize == <<98, 117, 102, 115, 105, 122, 101>>  \* "bufsize"
F_encoding == <<101, 110, 99, 111, 100, 105, 110, 103>>  \* "encoding"
F_errors == <<101, 114, 114, 111, 114, 115>>  \* "errors"
F_python_version == <<112, 121, 116, 104, 111, 110, 95, 118, 101, 114, 115, 105, 111, 110>>  \* "python_version"
F_python_implementation == <<112, 121, 116, 104, 111, 110, 95, 105, 109, 112, 108, 101, 109, 101, 110, 116, 97, 116, 105, 111, 110>>  \* "python_implementation"
F_platform_system == <<112, 108, 97, 116, 102, 111, 114, 109, 95, 115, 121, 115, 116, 101, 109>>  \* "platform_system"
F_platform_release == <<112, 108, 97, 116, 102, 111, 114, 109, 95, 114, 101, 108, 101, 97, 115, 101>>  \* "platform_release"
F_platform_machine == <<112, 108, 97, 116, 102, 111, 114, 109, 95, 109, 97, 99, 104, 105, 110, 101>>  \* "platform_machine"
F_argdump_version == <<97, 114, 103, 100, 117, 109, 112, 95, 118, 101, 114, 115, 105, 111, 110>>  \* "argdump_version"
F_action == <<97, 99, 116, 105, 111, 110>>  \* "action"
F_type == <<116, 121, 112, 101>>  \* "type"
F_parents == <<112, 97, 114, 101, 110, 116, 115>>  \* "parents"
F_aliases == <<97, 108, 105, 97, 115, 101, 115>>  \* "aliases"
F_schema == <<36, 115, 99, 104, 101, 109, 97>>  \* "$schema"
F_env == <<36, 101, 110, 118>>  \* "$env"
SCHEMA_URL_V1 == <<104, 116, 116, 112, 115, 58, 47, 47, 99, 104, 105, 108, 100, 109, 105, 110, 100, 114, 101, 115, 101, 97, 114, 99, 104, 46, 103, 105, 116, 104, 117, 98, 46, 105, 111, 47, 97, 114, 103, 100, 117, 109, 112, 47, 115, 99, 104, 101, 109, 97, 45, 118, 49, 46, 106, 115, 111, 110>>  \* "https://childmindresearch.github.io/argdump/schema-v1.json"
A_store == <<115, 116, 111, 114, 101>>  \* "store"
A_store_const == <<115, 116, 111, 114, 101, 95, 99, 111, 110, 115, 116>>  \* "store_const"
A_store_true == <<115, 116, 111, 114, 101, 95, 116, 114, 117, 101>>  \* "store_true"
A_store_false == <<115, 116, 111, 114, 101, 95, 102, 97, 108, 115, 101>>  \* "store_false"
A_append == <<97, 112, 112, 101, 110, 100>>  \* "append"
A_append_const == <<97, 112, 112, 101, 110, 100, 95, 99, 111, 110, 115, 116>>  \* "append_const"
A_count == <<99, 111, 117, 110, 116>>  \* "count"
A_parsers == <<112, 97, 114, 115, 101, 114, 115>>  \* "parsers"
A_extend == <<101, 120, 116, 101, 110, 100>>  \* "extend"
A_boolean_optional == <<98, 111, 111, 108, 101, 97, 110, 95, 111, 112, 116, 105, 111, 110, 97, 108>>  \* "boolean_optional"
A_unknown == <<117, 110, 107, 110, 111, 119, 110>>  \* "unknown"
S_dash == <<45>>  \* "-"
S_error == <<101, 114, 114, 111, 114>>  \* "error"
S_resolve == <<114, 101, 115, 111, 108, 118, 101>>  \* "resolve"
S_h == <<45, 104>>  \* "-h"
S_help_long == <<45, 45, 104, 101, 108, 112>>  \* "--help"
S_input == <<105, 110, 112, 117, 116>>  \* "input"
S_o == <<45, 111>>  \* "-o"
S_output_long == <<45, 45, 111, 117, 116, 112, 117, 116>>  \* "--output"
S_output == <<111, 117, 116, 112, 117, 116>>  \* "output"
S_out_txt == <<111, 117, 116, 46, 116, 120, 116>>  \* "out.txt"
S_v == <<45, 118>>  \* "-v"
S_verbose == <<118, 101, 114, 98, 111, 115, 101>>  \* "verbose"
S_a_txt == <<97, 46, 116, 120, 116>>  \* "a.txt"
S_b_txt == <<98, 46, 116, 120, 116>>  \* "b.txt"
S_json_long == <<45, 45, 106, 115, 111, 110>>  \* "--json"
S_xml_long == <<45, 45, 120, 109, 108>>  \* "--xml"
S_csv_long == <<45, 45, 99, 115, 118>>  \* "--csv"
S_json == <<106, 115, 111, 110>>  \* "json"
S_xml == <<120, 109, 108>>  \* "xml"
S_csv == <<99, 115, 118>>  \* "csv"
S_level_long == <<45, 45, 108, 101, 118, 101, 108>>  \* "--level"
S_level == <<108, 101, 118, 101, 108>>  \* "level"
S_question == <<63>>  \* "?"
S_star == <<42>>  \* "*"
S_plus == <<43>>  \* "+"
S_zz == <<122, 122>>  \* "zz"
S_cmd == <<99, 109, 100>>  \* "cmd"
S_commit == <<99, 111, 109, 109, 105, 116>>  \* "commit"
S_ci == <<99, 105>>  \* "ci"
S_co == <<99, 111>>  \* "co"
S_checkout == <<99, 104, 101, 99, 107, 111, 117, 116>>  \* "checkout"
S_msg_long == <<45, 45, 109, 115, 103>>  \* "--msg"
S_msg == <<109, 115, 103>>  \* "msg"
S_foo == <<102, 111, 111>>  \* "foo"
S_main == <<95, 95, 109, 97, 105, 110, 95, 95>>  \* "__main__"
S_prog == <<116, 111, 111, 108>>  \* "tool"
S_help_text == <<115, 104, 111, 119, 32, 116, 104, 105, 115, 32, 104, 101, 108, 112, 32, 109, 101, 115, 115, 97, 103, 101, 32, 97, 110, 100, 32, 101, 120, 105, 116>>  \* "show this help message and exit"
S_version_long == <<45, 45, 118, 101, 114, 115, 105, 111, 110>>  \* "--version"
S_1_0 == <<49, 46, 48>>  \* "1.0"
S_3 == <<51>>  \* "3"
S_x == <<120>>  \* "x"
S_positional_title == <<112, 111, 115, 105, 116, 105, 111, 110, 97, 108, 32, 97, 114, 103, 117, 109, 101, 110, 116, 115>>  \* "positional arguments"
S_options_title == <<111, 112, 116, 105, 111, 110, 115>>  \* "options"
S_py_version == <<51, 46, 49, 49, 46, 54>>  \* "3.11.6"
S_CPython == <<67, 80, 121, 116, 104, 111, 110>>  \* "CPython"
S_Linux == <<76, 105, 110, 117, 120>>  \* "Linux"
S_release == <<54, 46, 49>>  \* "6.1"
S_x86_64 == <<120, 56, 54, 95, 54, 52>>  \* "x86_64"
S_0_1_0 == <<48, 46, 49, 46, 48>>  \* "0.1.0"
S_PARSER_value == <<65, 46, 46, 46>>  \* "A..."
S_version_help == <<115, 104, 111, 119, 32, 112, 114, 111, 103, 114, 97, 109, 39, 115, 32, 118, 101, 114, 115, 105, 111, 110, 32, 110, 117, 109, 98, 101, 114, 32, 97, 110, 100, 32, 101, 120, 105, 116>>  \* "show program's version number and exit"
S_HelpFormatter == <<72, 101, 108, 112, 70, 111, 114, 109, 97, 116, 116, 101, 114>>  \* "HelpFormatter"
S_RawDescriptionHelpFormatter == <<82, 97, 119, 68, 101, 115, 99, 114, 105, 112, 116, 105, 111, 110, 72, 101, 108, 112, 70, 111, 114, 109, 97, 116, 116, 101, 114>>  \* "RawDescriptionHelpFormatter"
S_RawTextHelpFormatter == <<82, 97, 119, 84, 101, 120, 116, 72, 101, 108, 112, 70, 111, 114, 109, 97, 116, 116, 101, 114>>  \* "RawTextHelpFormatter"
S_ArgumentDefaultsHelpFormatter == <<65, 114, 103, 117, 109, 101, 110, 116, 68, 101, 102, 97, 117, 108, 116, 115, 72, 101, 108, 112, 70, 111, 114, 109, 97, 116, 116, 101, 114>>  \* "ArgumentDefaultsHelpFormatter"
S_MetavarTypeHelpFormatter == <<77, 101, 116, 97, 118, 97, 114, 84, 121, 112, 101, 72, 101, 108, 112, 70, 111, 114, 109, 97, 116, 116, 101, 114>>  \* "MetavarTypeHelpFormatter"
S_FooAction == <<70, 111, 111, 65, 99, 116, 105, 111, 110>>  \* "FooAction"
S_foo_long == <<45, 45, 102, 111, 111>>  \* "--foo"
S_flag_long == <<45, 45, 102, 108, 97, 103>>  \* "--flag"
S_flag == <<102, 108, 97, 103>>  \* "flag"
S_quiet_long == <<45, 45, 113, 117, 105, 101, 116>>  \* "--quiet"
S_quiet == <<113, 117, 105, 101, 116>>  \* "quiet"
S_ch == <<99, 104>>  \* "ch"
S_QuietAction == <<81, 117, 105, 101, 116, 65, 99, 116, 105, 111, 110>>  \* "QuietAction"

\* Python evaluates an expression once and names the result.  The({e : x \in {v}})
\* is e for x the value of v, and Then(x, e) is e unless x is an exception, which
\* then propagates
The(S) == CHOOSE r \in S : TRUE
Then(x, r) == IF IsRaise(x) THEN x ELSE r

\* d.pop(k, None) as a copy of d without the key k
Without(d, k) == PyDict(SelectSeq(d.pairs, LAMBDA e : e[1] /= PyStr(k)))

Keys(d) == {d.pairs[i][1] : i \in DOMAIN d.pairs}

\* cls(**data) for a dataclass with the given fields, of which some have no
\* default: the field values, or TypeError for an unexpected or a missing keyword
Dataclass(cls, data, defaults, required) ==
    IF \E k \in Keys(data) : k.t /= "str" \/ k.s \notin (DOMAIN defaults \cup required)
        THEN Raise("TypeError")
    ELSE IF \E r \in required : ~Has(data, r) THEN Raise("TypeError")
    ELSE [t |-> cls,
          f |-> [k \in DOMAIN defaults \cup required |->
                    IF Has(data, k) THEN Get(data, k) ELSE defaults[k]] @@ <<>>]

ActionTypeValues ==
    (A_store :> "STORE") @@ (A_store_const :> "STORE_CONST") @@ (A_store_true :> "STORE_TRUE")
    @@ (A_store_false :> "STORE_FALSE") @@ (A_append :> "APPEND")
    @@ (A_append_const :> "APPEND_CONST") @@ (A_count :> "COUNT") @@ (F_help :> "HELP")
    @@ (F_version :> "VERSION") @@ (A_parsers :> "PARSERS") @@ (A_extend :> "EXTEND")
    @@ (A_boolean_optional :> "BOOLEAN_OPTIONAL") @@ (A_unknown :> "UNKNOWN")

\* a member of ActionType: a str (its value) that is also an enum member
ActionType(member) ==
    [t |-> "ActionType", member |-> member,
     s |-> CHOOSE v \in DOMAIN ActionTypeValues : ActionTypeValues[v] = member]

\* ActionType.from_string(value)
from_string(value) ==
    IF value.s \in DOMAIN ActionTypeValues THEN ActionType(ActionTypeValues[value.s])
    ELSE ActionType("UNKNOWN")

ParserInfoDefaults ==
    (F_prog :> PyNone) @@ (F_description :> PyNone) @@ (F_epilog :> PyNone)
    @@ (F_usage :> PyNone) @@ (F_add_help :> PyBool(TRUE)) @@ (F_allow_abbrev :> PyBool(TRUE))
    @@ (F_formatter_class :> PyNone) @@ (F_prefix_chars :> PyStr(S_dash))
    @@ (F_fromfile_prefix_chars :> PyNone) @@ (F_argument_default :> PyNone)
    @@ (F_conflict_handler :> PyStr(S_error)) @@ (F_exit_on_error :> PyBool(TRUE))
    @@ (F_suggest_on_error :> PyBool(FALSE)) @@ (F_color :> PyBool(TRUE))
    @@ (F_actions :> PyList(<<>>)) @@ (F_argument_groups :> PyList(<<>>))
    @@ (F_mutually_exclusive_groups :> PyList(<<>>))

ActionInfoDefaults ==
    (F_nargs :> PyNone) @@ (F_const :> PyNone) @@ (F_default :> PyNone)
    @@ (F_type_info :> PyNone) @@ (F_file_type_info :> PyNone) @@ (F_choices :> PyNone)
    @@ (F_required :> PyBool(FALSE)) @@ (F_help :> PyNone) @@ (F_metavar :> PyNone)
    @@ (F_deprecated :> PyBool(FALSE)) @@ (F_version :> PyNone) @@ (F_subparsers :> PyNone)
    @@ (F_subparsers_title :> PyNone) @@ (F_subparsers_description :> PyNone)
    @@ (F_subparsers_dest :> PyNone) @@ (F_subparsers_required :> PyBool(FALSE))
    @@ (F_subparsers_aliases :> PyNone) @@ (F_custom_action_class :> PyNone)
ActionInfoRequired == {F_option_strings, F_dest, F_action_type}

\* TypeInfo(**d) and FileTypeInfo(**d)
TypeInfoOf(d) ==
    The({Then(o,
                   TypeInfo(o.f[K_name].s, o.f[K_module], Truthy(o.f[F_builtin]),
                            Truthy(o.f[F_serializable])))
         : o \in {
        Dataclass("TypeInfo", d,
                  (K_module :> PyNone) @@ (F_builtin :> PyBool(FALSE))
                  @@ (F_serializable :> PyBool(TRUE)), {K_name})}})

FileTypeInfoOf(d) ==
    The({Then(o,
                   FileTypeInfo(o.f[F_mode].s, o.f[F_bufsize].i, o.f[F_encoding],
                                o.f[F_errors]))
         : o \in {
        Dataclass("FileTypeInfo", d,
                  (F_mode :> PyStr(S_r)) @@ (F_bufsize :> PyInt(-1))
                  @@ (F_encoding :> PyNone) @@ (F_errors :> PyNone), {})}})

\* the first exception of a sequence of results, or the list of the results
AllOrRaise(results) ==
    The({IF AnyRaise(rs) THEN FirstRaise(rs) ELSE PyList(rs)
         : rs \in {results \o <<>>}})

\* data[k] = v for a key that data has
Replace(data, k, v) == IF Has(data, k) THEN PyDict(DictSet(data.pairs, PyStr(k), v)) ELSE data

RECURSIVE _convert_parser_info(_)

_convert_action_info(data0) ==
    The({
    The({Then(type_info1,
    The({Then(file_type_info1,
    The({Then(subparsers,
    The({Dataclass("ActionInfo", d2, ActionInfoDefaults, ActionInfoRequired)
         : d2 \in {
        Replace(Replace(Replace(d1, F_type_info, type_info1),
                        F_file_type_info, file_type_info1),
                F_subparsers, subparsers)}}))
         : subparsers \in {
        The({
              IF ~Truthy(sp) THEN sp
              ELSE IF sp.t /= "dict" THEN Raise("AttributeError")
              ELSE The({Then(rs,
                                   PyDict([i \in DOMAIN sp.pairs |->
                                             <<sp.pairs[i][1], rs.items[i]>>]))
                        : rs \in {
                       AllOrRaise([i \in DOMAIN sp.pairs |->
                                     IF sp.pairs[i][2].t = "dict"
                                     THEN _convert_parser_info(sp.pairs[i][2])
                                     ELSE sp.pairs[i][2]])}})
             : sp \in {GetOr(d1, F_subparsers, PyNone)}})}}))
         : file_type_info1 \in {
        The({IF Truthy(fti) /\ fti.t = "dict" THEN FileTypeInfoOf(fti) ELSE fti
             : fti \in {GetOr(d1, F_file_type_info, PyNone)}})}}))
         : type_info1 \in {
        The({IF Truthy(ti) /\ ti.t = "dict" THEN TypeInfoOf(ti) ELSE ti
             : ti \in {GetOr(d1, F_type_info, PyNone)}})}})
         : d1 \in {
        IF Has(data0, F_action_type) /\ Get(data0, F_action_type).t = "str"
        THEN Replace(data0, F_action_type, from_string(Get(data0, F_action_type)))
        ELSE data0}})

\* _convert_parser_info that pops "$schema" and leaves "$env" in the data
_convert_parser_info_keeps_env(data0) ==
    The({
    The({
    The({Then(info,
    The({Then(actions,
    The({Then(argument_groups,
    The({Then(mutually_exclusive_groups,
    [info EXCEPT !.f[F_actions] = actions,
                 !.f[F_argument_groups] = argument_groups,
                 !.f[F_mutually_exclusive_groups] = mutually_exclusive_groups])
         : mutually_exclusive_groups \in {
        The({Then(xs,
                        AllOrRaise([i \in DOMAIN xs.items |->
                                      IF xs.items[i].t = "dict"
                                      THEN Dataclass("MutualExclusionGroup", xs.items[i], <<>>,
                                                     {F_required, F_actions})
                                      ELSE xs.items[i]]))
             : xs \in {Iterate(GetOr(data, F_mutually_exclusive_groups, PyList(<<>>)))}})}}))
         : argument_groups \in {
        The({Then(xs,
                        AllOrRaise([i \in DOMAIN xs.items |->
                                      IF xs.items[i].t = "dict"
                                      THEN Dataclass("ArgumentGroup", xs.items[i], <<>>,
                                                     {F_title, F_description, F_actions})
                                      ELSE xs.items[i]]))
             : xs \in {Iterate(GetOr(data, F_argument_groups, PyList(<<>>)))}})}}))
         : actions \in {
        The({Then(xs,
                        AllOrRaise([i \in DOMAIN xs.items |->
                                      IF xs.items[i].t = "dict"
                                      THEN _convert_action_info(xs.items[i])
                                      ELSE xs.items[i]]))
             : xs \in {Iterate(GetOr(data, F_actions, PyList(<<>>)))}})}}))
         : info \in {Dataclass("ParserInfo", rest, ParserInfoDefaults, {})}})
         : rest \in {
        Without(Without(Without(data, F_actions), F_argument_groups),
                F_mutually_exclusive_groups)}})
         : data \in {Without(data0, F_schema)}})


_convert_parser_info(data0) ==
    The({
    The({
    The({Then(info,
    The({Then(actions,
    The({Then(argument_groups,
    The({Then(mutually_exclusive_groups,
    [info EXCEPT !.f[F_actions] = actions,
                 !.f[F_argument_groups] = argument_groups,
                 !.f[F_mutually_exclusive_groups] = mutually_exclusive_groups])
         : mutually_exclusive_groups \in {
        The({Then(xs,
                        AllOrRaise([i \in DOMAIN xs.items |->
                                      IF xs.items[i].t = "dict"
                                      THEN Dataclass("MutualExclusionGroup", xs.items[i], <<>>,
                                                     {F_required, F_actions})
                                      ELSE xs.items[i]]))
             : xs \in {Iterate(GetOr(data, F_mutually_exclusive_groups, PyList(<<>>)))}})}}))
         : argument_groups \in {
        The({Then(xs,
                        AllOrRaise([i \in DOMAIN xs.items |->
                                      IF xs.items[i].t = "dict"
                                      THEN Dataclass("ArgumentGroup", xs.items[i], <<>>,
                                                     {F_title, F_description, F_actions})
                                      ELSE xs.items[i]]))
             : xs \in {Iterate(GetOr(data, F_argument_groups, PyList(<<>>)))}})}}))
         : actions \in {
        The({Then(xs,
                        AllOrRaise([i \in DOMAIN xs.items |->
                                      IF xs.items[i].t = "dict"
                                      THEN _convert_action_info(xs.items[i])
                                      ELSE xs.items[i]]))
             : xs \in {Iterate(GetOr(data, F_actions, PyList(<<>>)))}})}}))
         : info \in {Dataclass("ParserInfo", rest, ParserInfoDefaults, {})}})
         : rest \in {
        Without(Without(Without(data, F_actions), F_argument_groups),
                F_mutually_exclusive_groups)}})
         : data \in {Without(Without(data0, F_schema), F_env)}})

(***************************************************************************)
(* argparse, as far as load and dump use it.  A parser is the keyword      *)
(* arguments it was constructed with, its actions in the order they were   *)
(* added, and its mutually exclusive groups (each the indices of its       *)
(* actions).  An action holds the attributes argparse derives from the     *)
(* add_argument call.  The subparsers action holds the parsers it created  *)
(* and the map from command name to the index of a parser, so that two     *)
(* names of one parser refer to one object.  parse_args tests the dest of   *)
(* an action with "is not SUPPRESS": dest_is_SUPPRESS says whether the dest *)
(* is that very object, which a str read from a document never is.         *)
(***************************************************************************)
Kw(pairs) == PyDict([i \in DOMAIN pairs |-> <<PyStr(pairs[i][1]), pairs[i][2]>>] \o <<>>)
KwSet(kwargs, k, v) == The({PyDict(DictSet(ps, PyStr(k), v) \o <<>>)
                            : ps \in {kwargs.pairs}})

Action(cls, kw) ==
    [t |-> "Action", cls |-> cls,
     option_strings |-> GetOr(kw, F_option_strings, PyList(<<>>)),
     dest |-> GetOr(kw, F_dest, PyNone),
     nargs |-> GetOr(kw, F_nargs, PyNone),
     const |-> GetOr(kw, F_const, PyNone),
     default |-> GetOr(kw, F_default, PyNone),
     type |-> GetOr(kw, F_type, PyNone),
     choices |-> GetOr(kw, F_choices, PyNone),
     required |-> GetOr(kw, F_required, PyBool(FALSE)),
     help |-> GetOr(kw, F_help, PyNone),
     metavar |-> GetOr(kw, F_metavar, PyNone),
     version |-> GetOr(kw, F_version, PyNone),
     dest_is_SUPPRESS |-> FALSE,
     parsers |-> <<>>,
     name_parser_map |-> <<>>]

\* the registry of action classes and the keywords each constructor accepts
ActionRegistry ==
    (A_store :> "_StoreAction") @@ (A_store_const :> "_StoreConstAction")
    @@ (A_store_true :> "_StoreTrueAction") @@ (A_store_false :> "_StoreFalseAction")
    @@ (A_append :> "_AppendAction") @@ (A_append_const :> "_AppendConstAction")
    @@ (A_count :> "_CountAction") @@ (F_help :> "_HelpAction")
    @@ (F_version :> "_VersionAction") @@ (A_parsers :> "_SubParsersAction")
    @@ (A_extend :> "_ExtendAction")

\* the action classes the program defines, each with its base class:
\* class QuietAction(argparse._StoreTrueAction) and class FooAction(argparse.Action)
UserClasses == ("QuietAction" :> "_StoreTrueAction") @@ ("FooAction" :> "Action")

\* the class whose __init__ a class inherits
ConstructorClass(cls) == IF cls \in DOMAIN UserClasses THEN UserClasses[cls] ELSE cls

\* action=cls, the class object itself
ActionClass(cls) == [t |-> "class", cls |-> cls]

ActionParams(cls) ==
    {F_option_strings, F_dest, F_default, F_help} \cup
    CASE cls \in {"Action", "_StoreAction", "_AppendAction", "_ExtendAction"} ->
            {F_nargs, F_const, F_type, F_choices, F_required, F_metavar}
      [] cls \in {"_StoreConstAction", "_AppendConstAction"} -> {F_const, F_required, F_metavar}
      [] cls \in {"_StoreTrueAction", "_StoreFalseAction", "_CountAction"} -> {F_required}
      [] cls = "_VersionAction" -> {F_version}
      [] OTHER -> {}

\* action_class(**kwargs)
NewAction(cls, kw) ==
    IF cls = "_SubParsersAction" THEN Raise("TypeError")
    ELSE IF \E k \in Keys(kw) : k.s \notin ActionParams(cls) THEN Raise("TypeError")
    ELSE
      CASE cls \in {"_StoreAction", "_AppendAction", "_ExtendAction"} ->
              IF GetOr(kw, F_nargs, PyNone) \in {PyInt(0), PyBool(FALSE)} THEN Raise("ValueError")
              ELSE IF GetOr(kw, F_const, PyNone) /= PyNone
                      /\ GetOr(kw, F_nargs, PyNone) /= PyStr(S_question)
                   THEN Raise("ValueError")
              ELSE Action(cls, kw)
        [] cls \in {"_StoreConstAction", "_AppendConstAction", "_CountAction"} ->
              The({Action(cls, k)
                   : k \in {KwSet(kw, F_nargs, PyInt(0))}})
        [] cls = "_StoreTrueAction" ->
              The({Action(cls, k)
                   : k \in {
                  KwSet(KwSet(KwSet(kw, F_nargs, PyInt(0)), F_const, PyBool(TRUE)),
                        F_default, GetOr(kw, F_default, PyBool(FALSE)))}})
        [] cls = "_StoreFalseAction" ->
              The({Action(cls, k)
                   : k \in {
                  KwSet(KwSet(KwSet(kw, F_nargs, PyInt(0)), F_const, PyBool(FALSE)),
                        F_default, GetOr(kw, F_default, PyBool(TRUE)))}})
        [] cls = "Action" -> Action(cls, kw)
        [] cls = "_HelpAction" -> The({Action(cls, k)
                                       : k \in {KwSet(kw, F_nargs, PyInt(0))}})
        [] cls = "_VersionAction" ->
              The({Action(cls, k)
                   : k \in {
                  KwSet(KwSet(kw, F_nargs, PyInt(0)),
                        F_help, GetOr(kw, F_help, PyStr(S_version_help)))}})

IsCallable(v) == v.t \in {"type", "object", "FileType"}

\* s.lstrip(chars).replace('-', '_')
RECURSIVE LStrip(_, _)
LStrip(s, chars) ==
    IF s /= <<>> /\ \E i \in DOMAIN chars : chars[i] = s[1] THEN LStrip(Tail(s), chars) ELSE s
InferDest(option_strings, chars) ==
    LET In(c) == \E i \in DOMAIN chars : chars[i] = c
        long == SelectSeq(option_strings, LAMBDA o : Len(o.s) > 1 /\ In(o.s[2]))
        pick == IF long /= <<>> THEN long[1] ELSE option_strings[1]
        d == LStrip(pick.s, chars)
    IN IF d = <<>> THEN Raise("ValueError")
       ELSE PyStr([i \in DOMAIN d |-> IF d[i] = 45 THEN 95 ELSE d[i]])

ParserKw(p, k, default) == GetOr(p.kwargs, k, default)
OptionStringsOf(p) ==
    UNION {{p.actions[i].option_strings.items[j] : j \in DOMAIN p.actions[i].option_strings.items} :
              i \in DOMAIN p.actions}

\* _handle_conflict_resolve: the option strings are taken from the actions that
\* hold them, and an action left with none is removed from the parser; a mutually
\* exclusive group keeps the removed action in its _group_actions (stale)
ResolveConflicts(p, strings) ==
    LET Strip(a) == [a EXCEPT !.option_strings =
                        PyList(SelectSeq(@.items, LAMBDA o : o \notin strings))]
        Gone(i) == /\ p.actions[i].option_strings.items /= <<>>
                   /\ Strip(p.actions[i]).option_strings.items = <<>>
        NewIndex(i) == Cardinality({j \in 1..i : ~Gone(j)})
        RECURSIVE Kept(_)
        Kept(i) == IF i > Len(p.actions) THEN <<>>
                   ELSE (IF Gone(i) THEN <<>> ELSE <<Strip(p.actions[i])>>) \o Kept(i + 1)
        RECURSIVE Members(_)
        Members(ms) == IF ms = <<>> THEN <<>>
                       ELSE (IF Gone(Head(ms)) THEN <<>> ELSE <<NewIndex(Head(ms))>>)
                            \o Members(Tail(ms))
        RECURSIVE Removed(_)
        Removed(ms) == IF ms = <<>> THEN <<>>
                       ELSE (IF Gone(Head(ms)) THEN <<Strip(p.actions[Head(ms)])>> ELSE <<>>)
                            \o Removed(Tail(ms))
    IN [p EXCEPT !.actions = Kept(1),
                 !.mutex = [g \in DOMAIN @ |->
                              [@[g] EXCEPT !.members = Members(@),
                                           !.stale = @ \o Removed(p.mutex[g].members)]]]

ValidNargs(n) ==
    \/ n.t \in {"NoneType", "int", "bool"}
    \/ n.t = "str" /\ n.s \in {S_question, S_star, S_plus, S_REMAINDER_value, S_PARSER_value,
                              S_SUPPRESS_value}

\* container.add_argument(*args, **kwargs), the container being the parser itself
\* (group = 0) or its mutually exclusive group number group: the parser with the
\* new action, or the exception
add_argument(p, group, args, kwargs) ==
    LET chars == ParserKw(p, F_prefix_chars, PyStr(S_dash)).s
        In(c) == \E i \in DOMAIN chars : chars[i] = c
        positional == args = <<>> \/ (Len(args) = 1 /\ ~In(args[1].s[1]))
        nargs == GetOr(kwargs, F_nargs, PyNone)
        req == nargs \notin {PyStr(S_question), PyStr(S_star)}
               \/ (nargs = PyStr(S_star) /\ ~Has(kwargs, F_default))
        given == GetOr(kwargs, F_dest, PyNone)
        argument_default == ParserKw(p, F_argument_default, PyNone)
        resolve == ParserKw(p, F_conflict_handler, PyStr(S_error)) = PyStr(S_resolve)
    IN
    The({Then(kw1,
    The({
    The({
    The({Then(action,
    The({
        IF action.type /= PyNone /\ ~IsCallable(action.type) THEN Raise("ValueError")
        ELSE IF action.type = PyType(S_FileType, S_argparse) THEN Raise("ValueError")
        ELSE IF group = 0 /\ ~ValidNargs(action.nargs) THEN Raise("ValueError")
        ELSE IF conflicts /= {} /\ ~resolve THEN Raise("ArgumentError")
        ELSE IF group /= 0 /\ Truthy(action.required) THEN Raise("ValueError")
        ELSE The({
                 [q EXCEPT !.actions = Append(@, action),
                           !.mutex = [g \in DOMAIN @ |->
                                        IF g = group
                                        THEN [@[g] EXCEPT !.members = Append(@, Len(q.actions) + 1)]
                                        ELSE @[g]] \o <<>>]
                  : q \in {IF conflicts /= {} THEN ResolveConflicts(p, conflicts) ELSE p}})
         : conflicts \in {
        {action.option_strings.items[j] : j \in DOMAIN action.option_strings.items}
        \cap OptionStringsOf(p)}}))
         : action \in {
        IF name /= PyNone /\ name.t = "class"
        THEN The({
                              The({Then(made, [made EXCEPT !.cls = name.cls])
                                   : made \in {NewAction(ConstructorClass(name.cls), kw3)}})
                  : kw3 \in {Without(kw2, F_action)}})
        ELSE IF name /= PyNone
                /\ ~(name.t \in {"str", "ActionType"} /\ name.s \in DOMAIN ActionRegistry)
        THEN Raise("ValueError")
        ELSE The({
                              NewAction(IF name = PyNone THEN "_StoreAction"
                                        ELSE ActionRegistry[name.s], kw3)
                  : kw3 \in {Without(kw2, F_action)}})}})
         : name \in {GetOr(kw2, F_action, PyNone)}})
         : kw2 \in {
        IF Has(kw1, F_default) \/ argument_default = PyNone THEN kw1
        ELSE KwSet(kw1, F_default, argument_default)}}))
         : kw1 \in {
        IF positional
        THEN IF args /= <<>> /\ Has(kwargs, F_dest) THEN Raise("ValueError")
             ELSE IF Has(kwargs, F_required) THEN Raise("TypeError")
             ELSE KwSet(KwSet(IF req THEN KwSet(kwargs, F_required, PyBool(TRUE)) ELSE kwargs,
                              F_dest, args[1]),
                        F_option_strings, PyList(<<>>))
        ELSE IF \E i \in DOMAIN args : ~In(args[i].s[1]) THEN Raise("ValueError")
             ELSE The({Then(dest,
                                    KwSet(KwSet(kwargs, F_dest, dest),
                                          F_option_strings, PyList(args)))
                       : dest \in {IF given /= PyNone THEN given ELSE InferDest(args, chars)}})}})

\* argparse.ArgumentParser(**kwargs)
ArgumentParser(kwargs) ==
    LET prefix_chars == GetOr(kwargs, F_prefix_chars, PyStr(S_dash))
        handler == GetOr(kwargs, F_conflict_handler, PyStr(S_error))
        p == [t |-> "ArgumentParser", kwargs |-> kwargs, actions |-> <<>>, mutex |-> <<>>]
    IN IF handler \notin {PyStr(S_error), PyStr(S_resolve)} THEN Raise("ValueError")
       ELSE IF prefix_chars.t /= "str" THEN Raise("TypeError")
       ELSE IF prefix_chars.s = <<>> THEN Raise("IndexError")
       ELSE IF Truthy(GetOr(kwargs, F_add_help, PyBool(TRUE)))
       THEN LET c == IF \E i \in DOMAIN prefix_chars.s : prefix_chars.s[i] = 45
                     THEN 45 ELSE prefix_chars.s[1]
            IN The({
                               add_argument(p, 0, <<PyStr(<<c, 104>>),
                                                    PyStr(<<c, c, 104, 101, 108, 112>>)>>, kw)
                    : kw \in {
                   Kw(<< <<F_action, PyStr(F_help)>>, <<F_default, SUPPRESS>>,
                         <<F_help, PyStr(S_help_text)>> >>)}})
       ELSE p

\* parser.add_mutually_exclusive_group(required=required)
add_mutually_exclusive_group(p, required) ==
    [p EXCEPT !.mutex = Append(@, [required |-> required, members |-> <<>>, stale |-> <<>>])]

SubParsersIndex(p) ==
    IF \E i \in DOMAIN p.actions : p.actions[i].cls = "_SubParsersAction"
    THEN CHOOSE i \in DOMAIN p.actions : p.actions[i].cls = "_SubParsersAction"
    ELSE 0

\* parser.add_subparsers(**kwargs); a second call ends in parser.error
add_subparsers(p, kwargs) ==
    IF SubParsersIndex(p) /= 0 THEN Raise("SystemExit")
    ELSE The({
             [p EXCEPT !.actions =
                Append(@, [Action("_SubParsersAction", kw)
                              EXCEPT !.dest_is_SUPPRESS = ~Has(kwargs, F_dest)])]
              : kw \in {
             Kw(<< <<F_dest, GetOr(kwargs, F_dest, SUPPRESS)>>,
                   <<F_nargs, PyStr(S_PARSER_value)>> >>)}})

\* subparsers_action.add_parser(name, parents=[parent], add_help=False,
\* description=..., aliases=...): a new parser that takes over the actions and
\* the groups of the parent, registered under the name and then under each alias;
\* ArgumentError for a name or an alias that is registered already
add_parser(p, name, kwargs) ==
    LET i == SubParsersIndex(p)
        parents == GetOr(kwargs, F_parents, PyList(<<>>)).items
        prog == PyStr(ParserKw(p, F_prog, PyStr(S_prog)).s \o <<32>> \o name.s)
        k == Len(p.actions[i].parsers) + 1
        Bind(map, n) ==
            IF \E j \in DOMAIN map : map[j][1] = n
            THEN [j \in DOMAIN map |-> IF map[j][1] = n THEN <<n, k>> ELSE map[j]] \o <<>>
            ELSE Append(map, <<n, k>>)
        RECURSIVE BindAll(_, _)
        BindAll(map, ns) ==
            IF ns = <<>> THEN map
            ELSE The({BindAll(m, Tail(ns))
                      : m \in {Bind(map, Head(ns))}})
        Bound(n) == \E j \in DOMAIN p.actions[i].name_parser_map :
                        p.actions[i].name_parser_map[j][1] = n
    IN
    IF Bound(name) THEN Raise("ArgumentError")
    ELSE
    The({Then(aliases,
    IF \E a \in DOMAIN aliases.items : Bound(aliases.items[a]) THEN Raise("ArgumentError")
    ELSE
    The({
    The({
    The({
    [p EXCEPT !.actions[i].parsers = Append(@, child),
              !.actions[i].name_parser_map = BindAll(@, <<name>> \o aliases.items)]
         : child \in {
        IF parents = <<>> THEN own
        ELSE [own EXCEPT
                !.actions = @ \o parents[1].actions,
                !.mutex = [g \in DOMAIN parents[1].mutex |->
                             [parents[1].mutex[g] EXCEPT
                                !.members = [m \in DOMAIN @ |-> @[m] + Len(own.actions)],
                                !.stale = <<>>]]]}})
         : own \in {ArgumentParser(kw)}})
         : kw \in {
        Kw(<< <<F_prog, prog>>,
              <<F_description, GetOr(kwargs, F_description, PyNone)>>,
              <<F_add_help, GetOr(kwargs, F_add_help, PyBool(TRUE))>> >>)}}))
         : aliases \in {Iterate(GetOr(kwargs, F_aliases, PyTuple(<<>>)))}})

(***************************************************************************)
(* Replay: deserialize_parser builds the ArgumentParser from a ParserInfo. *)
(* The kwargs builders return the keyword arguments, or the exception that *)
(* left them.                                                              *)
(***************************************************************************)
_FORMATTER_CLASSES ==
    {S_HelpFormatter, S_RawDescriptionHelpFormatter, S_RawTextHelpFormatter,
     S_ArgumentDefaultsHelpFormatter, S_MetavarTypeHelpFormatter}

_NO_NARGS_ACTIONS == {"STORE_TRUE", "STORE_FALSE", "COUNT", "APPEND_CONST", "STORE_CONST"}
_NO_TYPE_ACTIONS == {"STORE_TRUE", "STORE_FALSE", "COUNT", "STORE_CONST", "APPEND_CONST"}
_CONST_ACTIONS == {"STORE_CONST", "APPEND_CONST"}

\* action_type == member, and action_type in a set of members
IsMember(action_type, members) == action_type.t = "ActionType" /\ action_type.member \in members

\* every ActionType is a str, so the first test returns the member itself; a value
\* that is no str falls through to .value
_action_type_to_argparse(action_type) ==
    IF action_type.t \in {"str", "ActionType"} THEN action_type
    ELSE IF ~Hashable(action_type) THEN Raise("TypeError")
    ELSE Raise("AttributeError")

is_optional(action_info) == Truthy(action_info.f[F_option_strings])

_add_action_type_kwarg(kwargs, action_info) ==
    IF IsMember(action_info.f[F_action_type], {"STORE", "UNKNOWN"}) THEN kwargs
    ELSE The({Then(a, KwSet(kwargs, F_action, a))
              : a \in {_action_type_to_argparse(action_info.f[F_action_type])}})

_add_dest_kwarg(kwargs, action_info) ==
    IF is_optional(action_info) THEN KwSet(kwargs, F_dest, action_info.f[F_dest]) ELSE kwargs

_add_nargs_kwarg(kwargs, action_info) ==
    IF IsMember(action_info.f[F_action_type], _NO_NARGS_ACTIONS) THEN kwargs
    ELSE IF action_info.f[F_nargs] = PyNone THEN kwargs
    ELSE The({Then(nargs, IF nargs = PyNone THEN kwargs ELSE KwSet(kwargs, F_nargs, nargs))
              : nargs \in {deserialize_value(action_info.f[F_nargs])}})

_add_const_kwarg(kwargs, action_info) ==
    IF IsMember(action_info.f[F_action_type], _CONST_ACTIONS) /\ action_info.f[F_const] /= PyNone
    THEN The({Then(const, KwSet(kwargs, F_const, const))
              : const \in {deserialize_value(action_info.f[F_const])}})
    ELSE kwargs

_add_default_kwarg(kwargs, action_info) ==
    IF action_info.f[F_default] = PyNone THEN kwargs
    ELSE The({Then(default, KwSet(kwargs, F_default, default))
              : default \in {deserialize_value(action_info.f[F_default])}})

_add_type_kwarg(kwargs, action_info, is_strict) ==
    IF IsMember(action_info.f[F_action_type], _NO_TYPE_ACTIONS) THEN kwargs
    ELSE The({
                IF IsRaise(type_func)
                THEN IF type_func.exc = "UnresolvableTypeError" /\ ~is_strict THEN kwargs
                     ELSE type_func
                ELSE IF type_func = PyNone THEN kwargs
                ELSE KwSet(kwargs, F_type, type_func)
              : type_func \in {
             resolve_type(action_info.f[F_type_info], action_info.f[F_file_type_info],
                          is_strict)}})

_add_choices_kwarg(kwargs, action_info) ==
    IF action_info.f[F_choices] = PyNone THEN kwargs
    ELSE KwSet(kwargs, F_choices, action_info.f[F_choices])

_add_required_kwarg(kwargs, action_info) ==
    IF is_optional(action_info) /\ Truthy(action_info.f[F_required])
    THEN KwSet(kwargs, F_required, PyBool(TRUE)) ELSE kwargs

_add_help_kwarg(kwargs, action_info) ==
    IF action_info.f[F_help] = PyNone THEN kwargs
    ELSE KwSet(kwargs, F_help, action_info.f[F_help])

_add_metavar_kwarg(kwargs, action_info) ==
    IF action_info.f[F_metavar] = PyNone THEN kwargs
    ELSE KwSet(kwargs, F_metavar, action_info.f[F_metavar])

_add_version_kwarg(kwargs, action_info) ==
    IF action_info.f[F_version] = PyNone THEN kwargs
    ELSE KwSet(kwargs, F_version, action_info.f[F_version])

_add_deprecated_kwarg(kwargs, action_info) ==
    IF Truthy(action_info.f[F_deprecated]) THEN KwSet(kwargs, F_deprecated, PyBool(TRUE))
    ELSE kwargs

\* the n-th of the twelve builders that _build_action_kwargs calls
Builder(n, kwargs, action_info, is_strict) ==
    CASE n = 1 -> _add_action_type_kwarg(kwargs, action_info)
      [] n = 2 -> _add_dest_kwarg(kwargs, action_info)
      [] n = 3 -> _add_nargs_kwarg(kwargs, action_info)
      [] n = 4 -> _add_const_kwarg(kwargs, action_info)
      [] n = 5 -> _add_default_kwarg(kwargs, action_info)
      [] n = 6 -> _add_type_kwarg(kwargs, action_info, is_strict)
      [] n = 7 -> _add_choices_kwarg(kwargs, action_info)
      [] n = 8 -> _add_required_kwarg(kwargs, action_info)
      [] n = 9 -> _add_help_kwarg(kwargs, action_info)
      [] n = 10 -> _add_metavar_kwarg(kwargs, action_info)
      [] n = 11 -> _add_version_kwarg(kwargs, action_info)
      [] n = 12 -> _add_deprecated_kwarg(kwargs, action_info)

\* the builders from the n-th on, each on the kwargs the one before left
RECURSIVE BuildFrom(_, _, _, _)
BuildFrom(n, kwargs, action_info, is_strict) ==
    IF n > 12 THEN kwargs
    ELSE The({Then(k, BuildFrom(n + 1, k, action_info, is_strict))
              : k \in {Builder(n, kwargs, action_info, is_strict)}})

_build_action_kwargs(action_info, is_strict) ==
    The({BuildFrom(1, kwargs, action_info, is_strict)
         : kwargs \in {Kw(<<>>)}})

_build_parser_kwargs(info) ==
    LET Opt(kwargs, k) == IF Truthy(info.f[k]) THEN KwSet(kwargs, k, info.f[k]) ELSE kwargs
        fc == info.f[F_formatter_class]
    IN
    The({
    The({
    The({
    The({
    The({Then(k5, KwSet(k5, F_exit_on_error, info.f[F_exit_on_error]))
         : k5 \in {
        IF info.f[F_argument_default] = PyNone THEN k4
        ELSE The({Then(ad, KwSet(k4, F_argument_default, ad))
                  : ad \in {deserialize_value(info.f[F_argument_default])}})}})
         : k4 \in {KwSet(k3, F_allow_abbrev, info.f[F_allow_abbrev])}})
         : k3 \in {
        IF Truthy(fc) /\ fc.t = "str" /\ fc.s \in _FORMATTER_CLASSES
        THEN KwSet(k2, F_formatter_class, PyType(fc.s, S_argparse)) ELSE k2}})
         : k2 \in {
        Opt(Opt(Opt(Opt(Opt(k1, F_prog), F_description), F_epilog), F_usage),
            F_fromfile_prefix_chars)}})
         : k1 \in {
        Kw(<< <<F_add_help, info.f[F_add_help]>>,
              <<F_prefix_chars, info.f[F_prefix_chars]>>,
              <<F_conflict_handler, info.f[F_conflict_handler]>> >>)}})

\* getattr(action_info, name) of an entry of info.actions that may be no ActionInfo
IsActionInfo(action_info) == action_info.t = "ActionInfo"

_add_version_action(parser, action_info) ==
    The({
    The({
    The({
    The({Then(args, add_argument(parser, 0, args.items, kwargs))
         : args \in {Iterate(action_info.f[F_option_strings])}})
         : kwargs \in {IF Truthy(action_info.f[F_help]) THEN KwSet(k2, F_help, action_info.f[F_help]) ELSE k2}})
         : k2 \in {
        IF Truthy(action_info.f[F_version])
        THEN KwSet(k1, F_version, action_info.f[F_version]) ELSE k1}})
         : k1 \in {Kw(<< <<F_action, PyStr(F_version)>> >>)}})

_add_regular_action(parser, group, action_info, is_strict) ==
    The({Then(kwargs,
        IF is_optional(action_info)
        THEN The({Then(args, add_argument(parser, group, args.items, kwargs))
                  : args \in {Iterate(action_info.f[F_option_strings])}})
        ELSE add_argument(parser, group, <<action_info.f[F_dest]>>, kwargs))
         : kwargs \in {_build_action_kwargs(action_info, is_strict)}})

\* _build_mutex_membership that enters the first dest of each group only
_build_mutex_membership_first_dest(groups) ==
    [dest \in {groups[g].f[F_actions].items[1] :
                 g \in {h \in DOMAIN groups : groups[h].f[F_actions].items /= <<>>}} |->
        CHOOSE g \in DOMAIN groups :
            /\ groups[g].f[F_actions].items /= <<>>
            /\ groups[g].f[F_actions].items[1] = dest] @@ <<>>

\* dest -> the last group that lists it, as the index of the group
_build_mutex_membership(groups) ==
    [dest \in UNION {{groups[g].f[F_actions].items[k] : k \in DOMAIN groups[g].f[F_actions].items} :
                        g \in DOMAIN groups} |->
        CHOOSE g \in DOMAIN groups :
            /\ \E k \in DOMAIN groups[g].f[F_actions].items : groups[g].f[F_actions].items[k] = dest
            /\ \A h \in DOMAIN groups :
                  (\E k \in DOMAIN groups[h].f[F_actions].items :
                      groups[h].f[F_actions].items[k] = dest) => h <= g] @@ <<>>

\* one group on the parser per MutualExclusionGroup, in order: group number g of the
\* parser is the group created for groups[g]
RECURSIVE _create_mutex_groups(_, _)
_create_mutex_groups(parser, groups) ==
    IF groups = <<>> THEN parser
    ELSE The({_create_mutex_groups(p, Tail(groups))
              : p \in {add_mutually_exclusive_group(parser, Head(groups).f[F_required])}})

RECURSIVE deserialize_parser(_, _)

\* _add_subparsers that registers the canonical names only
_add_subparsers_canonical_only(parser, action_info, is_strict) ==
    IF ~Truthy(action_info.f[F_subparsers]) THEN parser
    ELSE
      LET dest == IF Truthy(action_info.f[F_subparsers_dest])
                  THEN action_info.f[F_subparsers_dest] ELSE action_info.f[F_dest]
          aliases_map == IF Truthy(action_info.f[F_subparsers_aliases])
                         THEN action_info.f[F_subparsers_aliases] ELSE PyDict(<<>>)
          subs == action_info.f[F_subparsers].pairs
          RECURSIVE Each(_, _)
          Each(p, i) ==
              IF i > Len(subs) THEN p
              ELSE The({Then(sub_parser,
                   The({
                   The({
                   The({Then(q, Each(q, i + 1))
                        : q \in {add_parser(p, subs[i][1], add_parser_kwargs)}})
                        : add_parser_kwargs \in {kw}})
                        : kw \in {
                       Kw(<< <<F_parents, PyList(<<sub_parser>>)>>,
                             <<F_add_help, PyBool(FALSE)>>,
                             <<F_description,
                               ParserKw(sub_parser, F_description, PyNone)>> >>)}}))
                        : sub_parser \in {deserialize_parser(subs[i][2], is_strict)}})
      IN
      The({
      The({
      The({
      The({Then(p1,
      The({Each(p2, 1)
           : p2 \in {
          [p1 EXCEPT !.actions[Len(p1.actions)].required =
                        action_info.f[F_subparsers_required]]}}))
           : p1 \in {add_subparsers(parser, kwargs)}})
           : kwargs \in {
          IF Truthy(action_info.f[F_subparsers_description])
          THEN KwSet(k2, F_description, action_info.f[F_subparsers_description]) ELSE k2}})
           : k2 \in {
          IF Truthy(action_info.f[F_subparsers_title])
          THEN KwSet(k1, F_title, action_info.f[F_subparsers_title]) ELSE k1}})
           : k1 \in {Kw(<< <<F_dest, dest>> >>)}})

\* _add_subparsers that rebuilds the nested parsers in lenient mode
_add_subparsers_lenient_below(parser, action_info, is_strict) ==
    IF ~Truthy(action_info.f[F_subparsers]) THEN parser
    ELSE
      LET dest == IF Truthy(action_info.f[F_subparsers_dest])
                  THEN action_info.f[F_subparsers_dest] ELSE action_info.f[F_dest]
          aliases_map == IF Truthy(action_info.f[F_subparsers_aliases])
                         THEN action_info.f[F_subparsers_aliases] ELSE PyDict(<<>>)
          subs == action_info.f[F_subparsers].pairs
          RECURSIVE Each(_, _)
          Each(p, i) ==
              IF i > Len(subs) THEN p
              ELSE The({Then(sub_parser,
                   The({
                   The({
                   The({Then(q, Each(q, i + 1))
                        : q \in {add_parser(p, subs[i][1], add_parser_kwargs)}})
                        : add_parser_kwargs \in {
                       IF Has(aliases_map, subs[i][1].s)
                       THEN KwSet(kw, F_aliases, Get(aliases_map, subs[i][1].s)) ELSE kw}})
                        : kw \in {
                       Kw(<< <<F_parents, PyList(<<sub_parser>>)>>,
                             <<F_add_help, PyBool(FALSE)>>,
                             <<F_description,
                               ParserKw(sub_parser, F_description, PyNone)>> >>)}}))
                        : sub_parser \in {deserialize_parser(subs[i][2], FALSE)}})
      IN
      The({
      The({
      The({
      The({Then(p1,
      The({Each(p2, 1)
           : p2 \in {
          [p1 EXCEPT !.actions[Len(p1.actions)].required =
                        action_info.f[F_subparsers_required]]}}))
           : p1 \in {add_subparsers(parser, kwargs)}})
           : kwargs \in {
          IF Truthy(action_info.f[F_subparsers_description])
          THEN KwSet(k2, F_description, action_info.f[F_subparsers_description]) ELSE k2}})
           : k2 \in {
          IF Truthy(action_info.f[F_subparsers_title])
          THEN KwSet(k1, F_title, action_info.f[F_subparsers_title]) ELSE k1}})
           : k1 \in {Kw(<< <<F_dest, dest>> >>)}})

_add_subparsers(parser, action_info, is_strict) ==
    IF ~Truthy(action_info.f[F_subparsers]) THEN parser
    ELSE
      LET dest == IF Truthy(action_info.f[F_subparsers_dest])
                  THEN action_info.f[F_subparsers_dest] ELSE action_info.f[F_dest]
          aliases_map == IF Truthy(action_info.f[F_subparsers_aliases])
                         THEN action_info.f[F_subparsers_aliases] ELSE PyDict(<<>>)
          subs == action_info.f[F_subparsers].pairs
          RECURSIVE Each(_, _)
          Each(p, i) ==
              IF i > Len(subs) THEN p
              ELSE The({Then(sub_parser,
                   The({
                   The({
                   The({Then(q, Each(q, i + 1))
                        : q \in {add_parser(p, subs[i][1], add_parser_kwargs)}})
                        : add_parser_kwargs \in {
                       IF Has(aliases_map, subs[i][1].s)
                       THEN KwSet(kw, F_aliases, Get(aliases_map, subs[i][1].s)) ELSE kw}})
                        : kw \in {
                       Kw(<< <<F_parents, PyList(<<sub_parser>>)>>,
                             <<F_add_help, PyBool(FALSE)>>,
                             <<F_description,
                               ParserKw(sub_parser, F_description, PyNone)>> >>)}}))
                        : sub_parser \in {deserialize_parser(subs[i][2], is_strict)}})
      IN
      The({
      The({
      The({
      The({Then(p1,
      The({Each(p2, 1)
           : p2 \in {
          [p1 EXCEPT !.actions[Len(p1.actions)].required =
                        action_info.f[F_subparsers_required]]}}))
           : p1 \in {add_subparsers(parser, kwargs)}})
           : kwargs \in {
          IF Truthy(action_info.f[F_subparsers_description])
          THEN KwSet(k2, F_description, action_info.f[F_subparsers_description]) ELSE k2}})
           : k2 \in {
          IF Truthy(action_info.f[F_subparsers_title])
          THEN KwSet(k1, F_title, action_info.f[F_subparsers_title]) ELSE k1}})
           : k1 \in {Kw(<< <<F_dest, dest>> >>)}})

_add_action(parser, action_info, mutex_membership, is_strict) ==
    IF ~IsActionInfo(action_info) THEN Raise("AttributeError")
    ELSE IF IsMember(action_info.f[F_action_type], {"HELP"}) THEN parser
    ELSE IF IsMember(action_info.f[F_action_type], {"VERSION"})
         THEN _add_version_action(parser, action_info)
    ELSE IF IsMember(action_info.f[F_action_type], {"PARSERS"})
         THEN _add_subparsers(parser, action_info, is_strict)
    ELSE IF action_info.f[F_dest] \in DOMAIN mutex_membership
         THEN _add_regular_action(parser, mutex_membership[action_info.f[F_dest]],
                                  action_info, is_strict)
    ELSE _add_regular_action(parser, 0, action_info, is_strict)

deserialize_parser(info0, is_strict) ==
    The({Then(info,
    IF info.t /= "ParserInfo" THEN Raise("AttributeError")
    ELSE
    The({Then(kwargs,
    The({Then(parser,
    IF \E g \in DOMAIN info.f[F_mutually_exclusive_groups].items :
          info.f[F_mutually_exclusive_groups].items[g].t /= "MutualExclusionGroup"
    THEN Raise("AttributeError")
    ELSE
    The({
    The({
        LET RECURSIVE Each(_, _)
            Each(p, i) ==
                IF i > Len(info.f[F_actions].items) THEN p
                ELSE The({Then(q, Each(q, i + 1))
                          : q \in {
                         _add_action(p, info.f[F_actions].items[i], mutex_membership,
                                     is_strict)}})
        IN Each(p0, 1)
         : p0 \in {_create_mutex_groups(parser, info.f[F_mutually_exclusive_groups].items)}})
         : mutex_membership \in {_build_mutex_membership(info.f[F_mutually_exclusive_groups].items)}}))
         : parser \in {ArgumentParser(kwargs)}}))
         : kwargs \in {_build_parser_kwargs(info)}}))
         : info \in {IF info0.t = "dict" THEN _convert_parser_info(info0) ELSE info0}})

load(data, is_strict) == deserialize_parser(data, is_strict)

(***************************************************************************)
(* parse_args, for command lines whose words are either an option string   *)
(* written in full or a word that begins with no prefix character.  The    *)
(* result is the namespace or the exception that parser.error raises.      *)
(***************************************************************************)
\* type_func(arg_string) for the converter of an action; the converters whose
\* results the model computes are int and str, the result of any other is the
\* call itself
Convert(type, s) ==
    IF type = PyNone \/ type = PyType(S_str, S_builtins) THEN PyStr(s)
    ELSE IF type = PyType(S_int, S_builtins)
    THEN IF s /= <<>> /\ \A i \in DOMAIN s : s[i] \in 48..57
         THEN LET RECURSIVE Num(_)
                  Num(k) == IF k = 0 THEN 0 ELSE 10 * Num(k - 1) + (s[k] - 48)
              IN PyInt(Num(Len(s)))
         ELSE Raise("ValueError")
    ELSE [t |-> "call", func |-> type, arg |-> s]

\* _get_value and _check_value
GetValue(a, s) ==
    The({
           IF IsRaise(v) THEN Raise("ArgumentError")
           ELSE IF a.cls = "_SubParsersAction" THEN v
           ELSE IF a.choices /= PyNone
                   /\ ~\E i \in DOMAIN a.choices.items : PyEq(a.choices.items[i], v)
                THEN Raise("ArgumentError")
           ELSE v
         : v \in {Convert(a.type, s)}})

\* the numbers of words an action takes: _get_nargs_pattern
MinArgs(a) ==
    CASE a.nargs = PyNone -> 1
      [] a.nargs.t = "int" -> a.nargs.i
      [] a.nargs.t = "str" /\ a.nargs.s \in {S_plus, S_PARSER_value} -> 1
      [] OTHER -> 0
MaxArgs(a, avail) ==
    CASE a.nargs = PyNone -> 1
      [] a.nargs.t = "int" -> a.nargs.i
      [] a.nargs = PyStr(S_question) -> 1
      [] OTHER -> avail

\* _get_values
GetValues(a, strings) ==
    IF strings = <<>> /\ a.nargs = PyStr(S_question)
    THEN LET value == IF a.option_strings.items /= <<>> THEN a.const ELSE a.default
         IN IF value.t = "str" THEN GetValue(a, value.s) ELSE value
    ELSE IF strings = <<>> /\ a.nargs = PyStr(S_star) /\ a.option_strings.items = <<>>
         THEN IF a.default /= PyNone THEN a.default ELSE PyList(<<>>)
    ELSE The({
                IF AnyRaise(each) THEN FirstRaise(each)
                ELSE IF Len(strings) = 1 /\ a.nargs \in {PyNone, PyStr(S_question)} THEN each[1]
                ELSE PyList(each)
              : each \in {[i \in DOMAIN strings |-> GetValue(a, strings[i])] \o <<>>}})

\* "argument_values is not action.default"
IsDefaultObject(a, strings) ==
    /\ strings = <<>>
    /\ a.option_strings.items = <<>>
    /\ \/ a.nargs = PyStr(S_question) /\ (a.default.t /= "str" \/ a.type = PyNone)
       \/ a.nargs = PyStr(S_star) /\ a.default /= PyNone

\* argparse.Namespace: the attributes and their values
Namespace(attrs) == [t |-> "Namespace", a |-> attrs @@ <<>>]
NsHas(ns, d) == d \in DOMAIN ns.a
NsSet(ns, d, v) == Namespace([k \in DOMAIN ns.a \cup {d} |-> IF k = d THEN v ELSE ns.a[k]])
NsGet(ns, d, default) == IF NsHas(ns, d) THEN ns.a[d] ELSE default

UNRECOGNIZED == <<95, 117, 110, 114, 101, 99>>

RECURSIVE parse_known_args(_, _)

\* action(parser, namespace, values, option_string) of each action class
Call(p, i, ns, values) ==
    LET a == p.actions[i]
        d == a.dest.s
        items == NsGet(ns, d, PyNone)
        list == IF items = PyNone THEN <<>> ELSE items.items
    IN CASE a.cls = "_StoreAction" -> NsSet(ns, d, values)
         [] a.cls \in {"_StoreConstAction", "_StoreTrueAction", "_StoreFalseAction"} ->
                NsSet(ns, d, a.const)
         [] a.cls = "_AppendAction" -> NsSet(ns, d, PyList(Append(list, values)))
         [] a.cls = "_AppendConstAction" -> NsSet(ns, d, PyList(Append(list, a.const)))
         [] a.cls = "_ExtendAction" -> NsSet(ns, d, PyList(list \o values.items))
         [] a.cls = "_CountAction" ->
                NsSet(ns, d, PyInt((IF Truthy(items) THEN NumVal(items) ELSE 0) + 1))
         [] a.cls \in {"_HelpAction", "_VersionAction"} -> Raise("SystemExit")
         [] a.cls = "_SubParsersAction" ->
                LET name == values.items[1]
                    bound == {k \in DOMAIN a.name_parser_map : a.name_parser_map[k][1] = name}
                IN IF bound = {} THEN Raise("ArgumentError")
                   ELSE
                   The({
                   The({Then(sub,
                   Namespace([k2 \in DOMAIN ns1.a \cup DOMAIN sub.a |->
                                IF k2 = UNRECOGNIZED
                                THEN PyList(NsGet(ns1, k2, PyList(<<>>)).items
                                            \o NsGet(sub, k2, PyList(<<>>)).items)
                                ELSE IF k2 \in DOMAIN sub.a THEN sub.a[k2]
                                ELSE ns1.a[k2]]))
                        : sub \in {
                       parse_known_args(a.parsers[a.name_parser_map[CHOOSE k \in bound : TRUE][2]],
                                        [j \in 1..(Len(values.items) - 1) |->
                                            values.items[j + 1].s] \o <<>>)}})
                        : ns1 \in {IF a.dest_is_SUPPRESS THEN ns ELSE NsSet(ns, d, name)}})

\* the namespace with which parsing starts: the default of every action
RECURSIVE Defaults(_, _, _)
Defaults(p, i, ns) ==
    IF i > Len(p.actions) THEN ns
    ELSE LET a == p.actions[i]
         IN IF ~a.dest_is_SUPPRESS /\ a.dest.t = "str" /\ ~NsHas(ns, a.dest.s)
               /\ a.default /= SUPPRESS
            THEN The({Defaults(p, i + 1, ns1)
                      : ns1 \in {NsSet(ns, a.dest.s, a.default)}})
            ELSE Defaults(p, i + 1, ns)

\* the action an option string selects, 0 for an option the parser does not have,
\* -1 for a word that is no option
OptionIndex(p, w) ==
    LET chars == ParserKw(p, F_prefix_chars, PyStr(S_dash)).s
        has == {i \in DOMAIN p.actions :
                  \E j \in DOMAIN p.actions[i].option_strings.items :
                      p.actions[i].option_strings.items[j] = PyStr(w)}
    IN IF w = <<>> \/ ~\E c \in DOMAIN chars : chars[c] = w[1] THEN -1
       ELSE IF has /= {} THEN CHOOSE i \in has : TRUE
       ELSE IF Len(w) = 1 THEN -1
       ELSE 0

\* take_action: the state of the parse after the action took the words
TakeAction(p, st, i, strings) ==
    LET a == p.actions[i]
        nondefault == ~IsDefaultObject(a, strings)
        groups == {g \in DOMAIN p.mutex : \E m \in DOMAIN p.mutex[g].members :
                                              p.mutex[g].members[m] = i}
        conflict == \E g \in groups : \E m \in DOMAIN p.mutex[g].members :
                        p.mutex[g].members[m] /= i /\ p.mutex[g].members[m] \in st.seen_nd
    IN
    The({Then(values,
        IF nondefault /\ conflict THEN Raise("ArgumentError")
        ELSE The({Then(ns,
                             [st EXCEPT !.ns = ns, !.seen = @ \cup {i},
                                        !.seen_nd = IF nondefault THEN @ \cup {i} ELSE @])
                  : ns \in {IF values = SUPPRESS THEN st.ns ELSE Call(p, i, st.ns, values)}}))
         : values \in {GetValues(a, strings)}})

\* the number of words from position k on that are no options
RECURSIVE Run(_, _, _)
Run(p, argv, k) ==
    IF k > Len(argv) \/ OptionIndex(p, argv[k]) >= 0 THEN 0 ELSE 1 + Run(p, argv, k + 1)

\* consume_positionals: the longest prefix of the pending positionals that the
\* words at position k can feed, each taking as many words as the later ones leave
RECURSIVE MinSum(_, _)
MinSum(p, is) == IF is = <<>> THEN 0 ELSE MinArgs(p.actions[Head(is)]) + MinSum(p, Tail(is))

RECURSIVE Feed(_, _, _, _, _, _)
Feed(p, argv, st, k, is, avail) ==
    IF is = <<>> THEN [st |-> st, k |-> k]
    ELSE
    The({
    The({
    The({
        IF IsRaise(st1) THEN [st |-> st1, k |-> k]
        ELSE The({Feed(p, argv, st1, x[1], x[2], x[3])
                  : x \in {<<k + n, Tail(is), rest - n>>}})
         : st1 \in {TakeAction(p, st, Head(is), SubSeq(argv, k, k + n - 1))}})
         : n \in {
        IF MaxArgs(p.actions[Head(is)], rest) < rest - MinSum(p, Tail(is))
        THEN MaxArgs(p.actions[Head(is)], rest) ELSE rest - MinSum(p, Tail(is))}})
         : rest \in {IF p.actions[Head(is)].nargs = PyStr(S_PARSER_value) THEN Len(argv) - k + 1 ELSE avail}})

consume_positionals(p, argv, st, k) ==
    LET avail == Run(p, argv, k)
        fits == {n \in 0..Len(st.positionals) : MinSum(p, SubSeq(st.positionals, 1, n)) <= avail}
    IN
    The({
    The({
        IF IsRaise(r.st) THEN r
        ELSE [r EXCEPT !.st.positionals = SubSeq(st.positionals, n + 1, Len(st.positionals))]
         : r \in {Feed(p, argv, st, k, SubSeq(st.positionals, 1, n), avail)}})
         : n \in {CHOOSE n \in fits : \A m \in fits : m <= n}})

\* consume_optional: the option at position k and the words it takes
consume_optional(p, argv, st, k) ==
    The({
        IF i = 0 THEN [st |-> [st EXCEPT !.extras = Append(@, argv[k])], k |-> k + 1]
        ELSE
        The({
            IF avail < MinArgs(p.actions[i]) THEN [st |-> Raise("ArgumentError"), k |-> k]
            ELSE The({
                                [st |-> TakeAction(p, st, i, SubSeq(argv, k + 1, k + n)),
                                 k |-> k + n + 1]
                      : n \in {
                     IF MaxArgs(p.actions[i], avail) < avail
                     THEN MaxArgs(p.actions[i], avail) ELSE avail}})
             : avail \in {Run(p, argv, k + 1)}})
         : i \in {OptionIndex(p, argv[k])}})

\* the loop of _parse_known_args
RECURSIVE Consume(_, _, _, _)
Consume(p, argv, st, k) ==
    IF IsRaise(st) THEN st
    ELSE
    The({
        IF opts = {}
        THEN The({
                            IF IsRaise(r.st) THEN r.st
                            ELSE [r.st EXCEPT !.extras = @ \o SubSeq(argv, r.k, Len(argv))]
                  : r \in {consume_positionals(p, argv, st, k)}})
        ELSE
        The({
        The({
            IF IsRaise(r.st) THEN r.st
            ELSE IF r.k > k THEN Consume(p, argv, r.st, r.k)
            ELSE The({Consume(p, argv, o.st, o.k)
                      : o \in {
                     consume_optional(p, argv,
                                      [st EXCEPT !.extras = @ \o SubSeq(argv, k, next - 1)],
                                      next)}})
             : r \in {IF k /= next THEN consume_positionals(p, argv, st, k) ELSE [st |-> st, k |-> k]}})
             : next \in {CHOOSE j \in opts : \A j2 \in opts : j <= j2}})
         : opts \in {{j \in k..Len(argv) : OptionIndex(p, argv[j]) >= 0}}})

\* parser.parse_known_args(args): the namespace, the words that nothing took under
\* the name UNRECOGNIZED, or the exception
parse_known_args(p, argv) ==
    LET positionals == SelectSeq([i \in DOMAIN p.actions |-> i],
                                 LAMBDA i : p.actions[i].option_strings.items = <<>>)
        exit == IF Truthy(ParserKw(p, F_exit_on_error, PyBool(TRUE)))
                THEN Raise("SystemExit") ELSE Raise("ArgumentError")
    IN
    The({
    The({
    IF IsRaise(st) THEN (IF st.exc = "ArgumentError" THEN exit ELSE st)
    ELSE IF \E i \in DOMAIN p.actions : i \notin st.seen /\ Truthy(p.actions[i].required)
         THEN Raise("SystemExit")
    ELSE
    The({
    IF AnyRaise(late) THEN exit
    ELSE IF \E g \in DOMAIN p.mutex :
               /\ Truthy(p.mutex[g].required)
               /\ ~\E m \in DOMAIN p.mutex[g].members : p.mutex[g].members[m] \in st.seen_nd
         THEN Raise("SystemExit")
    ELSE
    The({
    IF st.extras = <<>> THEN ns1
    ELSE NsSet(ns1, UNRECOGNIZED,
               PyList(NsGet(ns1, UNRECOGNIZED, PyList(<<>>)).items
                      \o [j \in DOMAIN st.extras |-> PyStr(st.extras[j])]))
         : ns1 \in {
        Namespace(
          [d \in DOMAIN st.ns.a |->
             IF \E i \in DOMAIN late : late[i] /= PyNone /\ p.actions[i].dest.s = d
             THEN late[CHOOSE i \in DOMAIN late :
                           late[i] /= PyNone /\ p.actions[i].dest.s = d]
             ELSE st.ns.a[d]])}})
         : late \in {
        [i \in DOMAIN p.actions |->
           IF i \notin st.seen /\ p.actions[i].default.t = "str"
              /\ ~p.actions[i].dest_is_SUPPRESS
              /\ NsHas(st.ns, p.actions[i].dest.s)
              /\ st.ns.a[p.actions[i].dest.s] = p.actions[i].default
              /\ p.actions[i].default /= SUPPRESS
           THEN GetValue(p.actions[i], p.actions[i].default.s) ELSE PyNone] \o <<>>}})
         : st \in {Consume(p, argv, st0, 1)}})
         : st0 \in {
        [t |-> "parse", ns |-> Defaults(p, 1, Namespace(<<>>)), extras |-> <<>>,
         seen |-> {}, seen_nd |-> {}, positionals |-> positionals]}})

\* parser.parse_args(args)
parse_args(p, argv) ==
    The({Then(ns, IF NsHas(ns, UNRECOGNIZED) THEN Raise("SystemExit") ELSE ns)
         : ns \in {parse_known_args(p, argv)}})

(***************************************************************************)
(* dump: serialize_parser reads the parser into ParserInfo, ActionInfo,    *)
(* ArgumentGroup and MutualExclusionGroup objects, and dump passes them    *)
(* through json.dumps with _Encoder and json.loads.                        *)
(***************************************************************************)
_ACTION_CLASS_MAP ==
    [c \in {ActionRegistry[k] : k \in DOMAIN ActionRegistry} \cup {"BooleanOptionalAction"} |->
        IF c = "BooleanOptionalAction" THEN ActionType("BOOLEAN_OPTIONAL")
        ELSE from_string(PyStr(CHOOSE k \in DOMAIN ActionRegistry : ActionRegistry[k] = c))]

\* type(action).__name__ of a class that argparse does not define
ClassName(cls) == CASE cls = "FooAction" -> S_FooAction
                    [] cls = "QuietAction" -> S_QuietAction

\* type(action).__mro__, by class name
RECURSIVE Mro(_)
Mro(cls) ==
    IF cls \in DOMAIN UserClasses THEN <<cls>> \o Mro(UserClasses[cls])
    ELSE IF cls = "Action" THEN <<"Action", "_AttributeHolder", "object">>
    ELSE <<cls>> \o
         (CASE cls \in {"_StoreTrueAction", "_StoreFalseAction"} -> <<"_StoreConstAction">>
            [] cls = "_ExtendAction" -> <<"_AppendAction">>
            [] OTHER -> <<>>)
         \o <<"Action", "_AttributeHolder", "object">>

\* _classify_action that takes the last known class of the ancestry chain
_classify_action_farthest(action) ==
    LET class_name == action.cls
        mro == Mro(class_name)
        hits == {i \in DOMAIN mro : mro[i] \in DOMAIN _ACTION_CLASS_MAP}
    IN IF class_name \in DOMAIN _ACTION_CLASS_MAP THEN <<_ACTION_CLASS_MAP[class_name], PyNone>>
       ELSE IF hits /= {}
       THEN <<_ACTION_CLASS_MAP[mro[CHOOSE i \in hits : \A j \in hits : i >= j]],
              PyStr(ClassName(class_name))>>
       ELSE <<ActionType("UNKNOWN"), PyStr(ClassName(class_name))>>

_classify_action(action) ==
    LET class_name == action.cls
        mro == Mro(class_name)
        hits == {i \in DOMAIN mro : mro[i] \in DOMAIN _ACTION_CLASS_MAP}
    IN IF class_name \in DOMAIN _ACTION_CLASS_MAP THEN <<_ACTION_CLASS_MAP[class_name], PyNone>>
       ELSE IF hits /= {}
       THEN <<_ACTION_CLASS_MAP[mro[CHOOSE i \in hits : \A j \in hits : i <= j]],
              PyStr(ClassName(class_name))>>
       ELSE <<ActionType("UNKNOWN"), PyStr(ClassName(class_name))>>

\* action.choices: the subparsers action has its map of names as choices
ChoicesOf(action) ==
    IF action.cls = "_SubParsersAction"
    THEN PyDict([i \in DOMAIN action.name_parser_map |->
                   <<action.name_parser_map[i][1], PyNone>>])
    ELSE action.choices

RECURSIVE serialize_parser(_)

\* the fields _add_subparsers_info sets on the ActionInfo of a subparsers action
\* _add_subparsers_info that takes every name of the map for a parser of its own
_add_subparsers_info_by_name(action) ==
    LET parser_map == action.name_parser_map
        Id(i) == parser_map[i][2]
        IsFirst(i) == TRUE
        firsts == SelectSeq([i \in DOMAIN parser_map |-> i], IsFirst)
        parser_to_names(id) ==
            SelectSeq([i \in DOMAIN parser_map |-> i], LAMBDA i : Id(i) = id)
        aliases(i) == LET all_names == parser_to_names(Id(i))
                          others == SelectSeq(all_names,
                                              LAMBDA j : parser_map[j][1] /= parser_map[i][1])
                      IN PyList([k \in DOMAIN others |-> parser_map[others[k]][1]] \o <<>>)
        with_aliases == SelectSeq(firsts, LAMBDA i : Truthy(aliases(i)))
    IN
    The({Then(infos,
       [t |-> "fields", f |->
       (F_subparsers :> PyDict([k \in DOMAIN firsts |->
                                  <<parser_map[firsts[k]][1], infos.items[k]>>] \o <<>>))
       @@ (F_subparsers_title :> PyNone)
       @@ (F_subparsers_description :> PyNone)
       @@ (F_subparsers_dest :> action.dest)
       @@ (F_subparsers_required :> action.required)
       @@ (F_subparsers_aliases :> PyDict([k \in DOMAIN with_aliases |->
                                             <<parser_map[with_aliases[k]][1],
                                               aliases(with_aliases[k])>>] \o <<>>))])
         : infos \in {AllOrRaise([k \in DOMAIN firsts |-> serialize_parser(action.parsers[Id(firsts[k])])])}})

\* _add_subparsers_info that lists the canonical name among its aliases
_add_subparsers_info_all_names(action) ==
    LET parser_map == action.name_parser_map
        Id(i) == parser_map[i][2]
        IsFirst(i) == \A j \in 1..(i - 1) : Id(j) /= Id(i)
        firsts == SelectSeq([i \in DOMAIN parser_map |-> i], IsFirst)
        parser_to_names(id) ==
            SelectSeq([i \in DOMAIN parser_map |-> i], LAMBDA i : Id(i) = id)
        aliases(i) == LET all_names == parser_to_names(Id(i))
                          others == all_names
                      IN PyList([k \in DOMAIN others |-> parser_map[others[k]][1]] \o <<>>)
        with_aliases == SelectSeq(firsts, LAMBDA i : Truthy(aliases(i)))
    IN
    The({Then(infos,
       [t |-> "fields", f |->
       (F_subparsers :> PyDict([k \in DOMAIN firsts |->
                                  <<parser_map[firsts[k]][1], infos.items[k]>>] \o <<>>))
       @@ (F_subparsers_title :> PyNone)
       @@ (F_subparsers_description :> PyNone)
       @@ (F_subparsers_dest :> action.dest)
       @@ (F_subparsers_required :> action.required)
       @@ (F_subparsers_aliases :> PyDict([k \in DOMAIN with_aliases |->
                                             <<parser_map[with_aliases[k]][1],
                                               aliases(with_aliases[k])>>] \o <<>>))])
         : infos \in {AllOrRaise([k \in DOMAIN firsts |-> serialize_parser(action.parsers[Id(firsts[k])])])}})

_add_subparsers_info(action) ==
    LET parser_map == action.name_parser_map
        Id(i) == parser_map[i][2]
        IsFirst(i) == \A j \in 1..(i - 1) : Id(j) /= Id(i)
        firsts == SelectSeq([i \in DOMAIN parser_map |-> i], IsFirst)
        parser_to_names(id) ==
            SelectSeq([i \in DOMAIN parser_map |-> i], LAMBDA i : Id(i) = id)
        aliases(i) == LET all_names == parser_to_names(Id(i))
                          others == SelectSeq(all_names,
                                              LAMBDA j : parser_map[j][1] /= parser_map[i][1])
                      IN PyList([k \in DOMAIN others |-> parser_map[others[k]][1]] \o <<>>)
        with_aliases == SelectSeq(firsts, LAMBDA i : Truthy(aliases(i)))
    IN
    The({Then(infos,
       [t |-> "fields", f |->
       (F_subparsers :> PyDict([k \in DOMAIN firsts |->
                                  <<parser_map[firsts[k]][1], infos.items[k]>>] \o <<>>))
       @@ (F_subparsers_title :> PyNone)
       @@ (F_subparsers_description :> PyNone)
       @@ (F_subparsers_dest :> action.dest)
       @@ (F_subparsers_required :> action.required)
       @@ (F_subparsers_aliases :> PyDict([k \in DOMAIN with_aliases |->
                                             <<parser_map[with_aliases[k]][1],
                                               aliases(with_aliases[k])>>] \o <<>>))])
         : infos \in {AllOrRaise([k \in DOMAIN firsts |-> serialize_parser(action.parsers[Id(firsts[k])])])}})

_serialize_action(action) ==
    The({
    The({
    The({Then(choices,
    The({Then(subs,
       [t |-> "ActionInfo",
        f |-> subs.f
              @@ (IF IsMember(c[1], {"VERSION"}) THEN (F_version :> action.version) ELSE <<>>)
              @@ (F_option_strings :> PyList(action.option_strings.items))
              @@ (F_dest :> action.dest)
              @@ (F_action_type :> c[1])
              @@ (F_nargs :> IF action.nargs /= PyNone THEN Encoded(action.nargs).tree
                             ELSE PyNone)
              @@ (F_const :> Encoded(action.const).tree)
              @@ (F_default :> Encoded(action.default).tree)
              @@ (F_type_info :> ti[1])
              @@ (F_file_type_info :> ti[2])
              @@ (F_choices :> choices)
              @@ (F_required :> action.required)
              @@ (F_help :> IF action.help /= SUPPRESS THEN action.help ELSE PyNone)
              @@ (F_metavar :> action.metavar)
              @@ (F_deprecated :> PyBool(FALSE))
              @@ (F_custom_action_class :> c[2])
              @@ ActionInfoDefaults])
         : subs \in {
        IF IsMember(c[1], {"PARSERS"}) THEN _add_subparsers_info(action)
        ELSE [t |-> "fields", f |-> <<>>]}}))
         : choices \in {IF ChoicesOf(action) = PyNone THEN PyNone ELSE Iterate(ChoicesOf(action))}})
         : ti \in {_extract_type_info(action)}})
         : c \in {_classify_action(action)}})

_create_parser_info(parser) ==
    LET fc == ParserKw(parser, F_formatter_class, PyType(S_HelpFormatter, S_argparse))
    IN [t |-> "ParserInfo",
        f |-> (F_prog :> ParserKw(parser, F_prog, PyStr(S_prog)))
              @@ (F_description :> ParserKw(parser, F_description, PyNone))
              @@ (F_epilog :> ParserKw(parser, F_epilog, PyNone))
              @@ (F_usage :> ParserKw(parser, F_usage, PyNone))
              @@ (F_add_help :> ParserKw(parser, F_add_help, PyBool(TRUE)))
              @@ (F_allow_abbrev :> ParserKw(parser, F_allow_abbrev, PyBool(TRUE)))
              @@ (F_formatter_class :> IF fc = PyNone THEN PyNone ELSE NameOf(fc))
              @@ (F_prefix_chars :> ParserKw(parser, F_prefix_chars, PyStr(S_dash)))
              @@ (F_fromfile_prefix_chars :> ParserKw(parser, F_fromfile_prefix_chars, PyNone))
              @@ (F_argument_default :>
                     Encoded(ParserKw(parser, F_argument_default, PyNone)).tree)
              @@ (F_conflict_handler :> ParserKw(parser, F_conflict_handler, PyStr(S_error)))
              @@ (F_exit_on_error :> ParserKw(parser, F_exit_on_error, PyBool(TRUE)))
              @@ ParserInfoDefaults]

_serialize_actions(parser) ==
    AllOrRaise([i \in DOMAIN parser.actions |-> _serialize_action(parser.actions[i])])

\* the parser's two groups, "positional arguments" and "options", each with the
\* dests of its actions
_serialize_argument_groups(parser) ==
    LET Group(title, positional) ==
            LET members == SelectSeq(parser.actions,
                                     LAMBDA a : (a.option_strings.items = <<>>) = positional)
            IN [t |-> "ArgumentGroup",
                f |-> (F_title :> PyStr(title)) @@ (F_description :> PyNone)
                      @@ (F_actions :> PyList([i \in DOMAIN members |-> members[i].dest]
                                              \o <<>>))]
    IN <<Group(S_positional_title, TRUE), Group(S_options_title, FALSE)>>

\* mutex_group._group_actions: the members that are actions of the parser, each
\* with its index in parser._actions, and the stale ones, which have none
_group_actions(parser, g) ==
    [m \in DOMAIN parser.mutex[g].members |->
        [index |-> parser.mutex[g].members[m],
         action |-> parser.actions[parser.mutex[g].members[m]]]]
    \o [m \in DOMAIN parser.mutex[g].stale |->
          [index |-> 0, action |-> parser.mutex[g].stale[m]]]

\* _serialize_mutex_groups without the test id(a) in action_to_dest, the dest
\* being read from the action
_serialize_mutex_groups_unfiltered(parser) ==
    [g \in DOMAIN parser.mutex |->
        The({
        [t |-> "MutualExclusionGroup",
         f |-> (F_required :> parser.mutex[g].required)
               @@ (F_actions :> PyList([m \in DOMAIN listed |-> listed[m].action.dest]
                                       \o <<>>))]
             : listed \in {_group_actions(parser, g)}})] \o <<>>

\* action_to_dest holds the id of every action of parser._actions
_serialize_mutex_groups(parser) ==
    [g \in DOMAIN parser.mutex |->
        The({
        [t |-> "MutualExclusionGroup",
         f |-> (F_required :> parser.mutex[g].required)
               @@ (F_actions :> PyList([m \in DOMAIN listed |-> listed[m].action.dest]
                                       \o <<>>))]
             : listed \in {SelectSeq(_group_actions(parser, g), LAMBDA a : a.index \in DOMAIN parser.actions)}})] \o <<>>

serialize_parser(parser) ==
    The({
    The({Then(actions,
       [info EXCEPT !.f[F_actions] = actions,
                    !.f[F_argument_groups] = PyList(_serialize_argument_groups(parser)),
                    !.f[F_mutually_exclusive_groups] =
                        PyList(_serialize_mutex_groups(parser))])
         : actions \in {_serialize_actions(parser)}})
         : info \in {_create_parser_info(parser)}})

\* the fields of each dataclass, in the order of their declaration
Fields(cls) ==
    CASE cls = "ParserInfo" ->
           <<F_prog, F_description, F_epilog, F_usage, F_add_help, F_allow_abbrev,
             F_formatter_class, F_prefix_chars, F_fromfile_prefix_chars, F_argument_default,
             F_conflict_handler, F_exit_on_error, F_suggest_on_error, F_color, F_actions,
             F_argument_groups, F_mutually_exclusive_groups>>
      [] cls = "ActionInfo" ->
           <<F_option_strings, F_dest, F_action_type, F_nargs, F_const, F_default, F_type_info,
             F_file_type_info, F_choices, F_required, F_help, F_metavar, F_deprecated,
             F_version, F_subparsers, F_subparsers_title, F_subparsers_description,
             F_subparsers_dest, F_subparsers_required, F_subparsers_aliases,
             F_custom_action_class>>
      [] cls = "ArgumentGroup" -> <<F_title, F_description, F_actions>>
      [] cls = "MutualExclusionGroup" -> <<F_required, F_actions>>
      [] cls = "EnvironmentInfo" ->
           <<F_python_version, F_python_implementation, F_platform_system,
             F_platform_release, F_platform_machine, F_argdump_version>>

\* json.loads(json.dumps(o, cls=_Encoder)): a dataclass becomes the mapping of its
\* fields, an enum member its value, a tuple an array; TypeError for a value JSON
\* does not carry
RECURSIVE _Encoder(_)
_Encoder(o) ==
    CASE o.t \in {"NoneType", "bool", "int", "float", "str"} -> o
      [] o.t = "ActionType" -> PyStr(o.s)
      [] o.t = "enum" -> _Encoder(o.value)
      [] o.t \in {"list", "tuple"} ->
             AllOrRaise([i \in DOMAIN o.items |-> _Encoder(o.items[i])])
      [] o.t = "dict" ->
             IF \E i \in DOMAIN o.pairs : o.pairs[i][1].t /= "str" THEN Raise("TypeError")
             ELSE The({Then(rs,
                                  PyDict([i \in DOMAIN o.pairs |->
                                            <<o.pairs[i][1], rs.items[i]>>] \o <<>>))
                       : rs \in {AllOrRaise([i \in DOMAIN o.pairs |-> _Encoder(o.pairs[i][2])])}})
      [] o.t \in {"ParserInfo", "ActionInfo", "ArgumentGroup", "MutualExclusionGroup",
                  "EnvironmentInfo"} ->
             The({Then(rs,
                             PyDict([i \in DOMAIN Fields(o.t) |->
                                       <<PyStr(Fields(o.t)[i]), rs.items[i]>>] \o <<>>))
                  : rs \in {AllOrRaise([i \in DOMAIN Fields(o.t) |-> _Encoder(o.f[Fields(o.t)[i]])])}})
      [] o.t = "TypeInfo" ->
             PyDict(<<Entry(K_name, PyStr(o.name)), Entry(K_module, o.module),
                      Entry(F_builtin, PyBool(o.builtin)),
                      Entry(F_serializable, PyBool(o.serializable))>>)
      [] o.t = "FileTypeInfo" ->
             PyDict(<<Entry(F_mode, PyStr(o.mode)), Entry(F_bufsize, PyInt(o.bufsize)),
                      Entry(F_encoding, o.encoding), Entry(F_errors, o.errors)>>)
      [] OTHER -> Raise("TypeError")

get_environment_info ==
    [t |-> "EnvironmentInfo",
     f |-> (F_python_version :> PyStr(S_py_version))
           @@ (F_python_implementation :> PyStr(S_CPython))
           @@ (F_platform_system :> PyStr(S_Linux))
           @@ (F_platform_release :> PyStr(S_release))
           @@ (F_platform_machine :> PyStr(S_x86_64))
           @@ (F_argdump_version :> PyStr(S_0_1_0))]

\* result.update(data), from the i-th pair of data on
RECURSIVE Update(_, _, _)
Update(result, pairs, i) ==
    IF i > Len(pairs) THEN result
    ELSE The({Update(r, pairs, i + 1)
              : r \in {DictSet(result, pairs[i][1], pairs[i][2]) \o <<>>}})

dump(parser, include_env) ==
    The({Then(info,
    The({Then(data,
    The({PyDict(Update(result, data.pairs, 1))
         : result \in {
        <<Entry(F_schema, PyStr(SCHEMA_URL_V1))>>
        \o (IF include_env THEN <<Entry(F_env, _Encoder(get_environment_info))>> ELSE <<>>)}}))
         : data \in {_Encoder(info)}}))
         : info \in {serialize_parser(parser)}})

(***************************************************************************)
(* The load specification: a document arrives, load rebuilds the parser in *)
(* strict or lenient mode, and the parser parses a command line.           *)
(***************************************************************************)
StrList(ss) == PyList([i \in DOMAIN ss |-> PyStr(ss[i])])

ActionRecord(option_strings, dest, action_type, more) ==
    Kw(<< <<F_option_strings, StrList(option_strings)>>, <<F_dest, PyStr(dest)>>,
          <<F_action_type, PyStr(action_type)>> >> \o more)

TypeRecord(name, more) == Kw(<< <<K_name, PyStr(name)>> >> \o more)

\* the records of a grammar with a positional input, an option -o/--output with
\* default "out.txt", a counting flag -v, and the help option argparse adds
BaseRecords ==
    << ActionRecord(<<S_h, S_help_long>>, F_help, F_help,
                    << <<F_default, Kw(<< <<K_argparse, PyStr(S_SUPPRESS)>> >>)>>,
                       <<F_help, PyStr(S_help_text)>> >>),
       ActionRecord(<<>>, S_input, A_store, <<>>),
       ActionRecord(<<S_o, S_output_long>>, S_output, A_store,
                    << <<F_default, PyStr(S_out_txt)>> >>),
       ActionRecord(<<S_v>>, S_verbose, A_count, << <<F_default, PyInt(0)>> >>) >>

SubDocument ==
    Kw(<< <<F_prog, PyStr(S_commit)>>,
          <<F_actions, PyList(<<ActionRecord(<<S_msg_long>>, S_msg, A_store, <<>>)>>)>> >>)

\* one more record after those of the base grammar
ExtraRecords ==
    { ActionRecord(<<S_level_long>>, S_level, A_store,
                   << <<F_type_info, TypeRecord(S_int, << <<F_builtin, PyBool(TRUE)>> >>)>> >>),
      ActionRecord(<<S_level_long>>, S_level, A_store,
                   << <<F_type_info, TypeRecord(S_int, << <<F_builtin, PyBool(TRUE)>> >>)>>,
                      <<F_choices, PyList(<<PyInt(2), PyInt(3)>>)>> >>),
      ActionRecord(<<S_level_long>>, S_level, A_store,
                   << <<F_type_info, TypeRecord(S_lambda, << <<K_module, PyStr(S_main)>>,
                                                             <<F_serializable, PyBool(FALSE)>> >>)>> >>),
      ActionRecord(<<S_level_long>>, S_level, A_store,
                   << <<F_type_info, TypeRecord(S_NonExistent, <<>>)>> >>),
      ActionRecord(<<S_level_long>>, S_level, A_store,
                   << <<F_type_info,
                        TypeRecord(S_int, << <<K_module, PyStr(S_nonexistent_module)>> >>)>> >>),
      ActionRecord(<<S_level_long>>, S_level, A_store,
                   << <<F_type_info, TypeRecord(S_x, << <<K_module, PyStr(S_rel_module)>> >>)>> >>),
      ActionRecord(<<S_level_long>>, S_level, A_store,
                   << <<F_type_info, TypeRecord(S_int, << <<S_foo, PyInt(1)>> >>)>> >>),
      ActionRecord(<<S_quiet_long>>, S_quiet, A_store_true,
                   << <<F_type_info, TypeRecord(S_NonExistent, <<>>)>> >>),
      ActionRecord(<<S_foo_long>>, S_foo, A_store,
                   << <<F_nargs, PyStr(S_question)>>, <<F_const, PyStr(S_x)>> >>),
      ActionRecord(<<S_foo_long>>, S_foo, A_store_const, << <<F_const, PyStr(S_x)>> >>),
      ActionRecord(<<S_foo_long>>, S_foo, A_store,
                   << <<F_default, Kw(<< <<K_set, PyInt(5)>> >>)>> >>),
      ActionRecord(<<S_foo_long>>, S_foo, A_store, << <<F_nargs, PyStr(S_zz)>> >>),
      ActionRecord(<<S_foo_long>>, S_foo, A_store, << <<S_foo, PyInt(1)>> >>),
      ActionRecord(<<S_foo_long>>, S_foo, S_zz, <<>>),
      ActionRecord(<<S_flag_long>>, S_flag, A_boolean_optional, <<>>),
      ActionRecord(<<S_o>>, S_foo, A_store, <<>>),
      Kw(<< <<F_option_strings, StrList(<<S_foo_long>>)>>,
            <<F_action_type, PyStr(A_store)>> >>),
      ActionRecord(<<S_version_long>>, F_version, F_version,
                   << <<F_version, PyStr(S_1_0)>> >>),
      ActionRecord(<<>>, S_cmd, A_parsers,
                   << <<F_subparsers, PyDict(<< <<PyStr(S_commit), SubDocument>> >>)>>,
                      <<F_subparsers_dest, PyStr(S_cmd)>>,
                      <<F_subparsers_aliases,
                        PyDict(<< <<PyStr(S_commit), StrList(<<S_ci>>)>> >>)>> >>),
      ActionRecord(<<>>, S_cmd, A_parsers,
                   << <<F_subparsers, PyDict(<<>>)>>,
                      <<F_subparsers_dest, PyStr(S_cmd)>> >>),
      PyInt(5) }

MutexRecords ==
    << ActionRecord(<<S_json_long>>, S_json, A_store_true, <<>>),
       ActionRecord(<<S_xml_long>>, S_xml, A_store_true, <<>>),
       ActionRecord(<<S_csv_long>>, S_csv, A_store_true, <<>>) >>
MutexRecord ==
    Kw(<< <<F_required, PyBool(TRUE)>>, <<F_actions, StrList(<<S_json, S_xml, S_csv>>)>> >>)

\* keys at the top of the document, besides the actions
TopKeys ==
    { <<>>,
      << <<F_schema, PyStr(SCHEMA_URL_V1)>>, <<F_env, _Encoder(get_environment_info)>> >>,
      << <<S_foo, PyInt(1)>> >>,
      << <<F_prefix_chars, PyNone>> >>,
      << <<F_conflict_handler, PyStr(S_zz)>> >>,
      << <<F_argument_default, Kw(<< <<K_bytes, PyInt(5)>> >>)>> >>,
      << <<F_add_help, PyBool(FALSE)>> >>,
      << <<F_mutually_exclusive_groups, PyList(<<MutexRecord>>)>> >> }

Document(top, records) ==
    Kw(<< <<F_prog, PyStr(S_prog)>> >> \o top \o << <<F_actions, PyList(records)>> >>)

LoadDocuments ==
    {Document(top, BaseRecords) : top \in TopKeys}
    \cup {Document(<<>>, Append(BaseRecords, r)) : r \in ExtraRecords}
    \cup {Document(top, BaseRecords \o MutexRecords) :
            top \in {<<>>, << <<F_mutually_exclusive_groups, PyList(<<MutexRecord>>)>> >>}}
    \cup {Kw(<<>>), Kw(<< <<F_actions, PyInt(5)>> >>)}

CommandLines ==
    { <<>>, <<S_a_txt>>, <<S_a_txt, S_o, S_b_txt, S_v, S_v>>,
      <<S_a_txt, S_level_long, S_3>>, <<S_a_txt, S_level_long, S_x>>,
      <<S_a_txt, S_foo_long>>, <<S_a_txt, S_foo_long, S_x>>,
      <<S_a_txt, S_json_long>>, <<S_a_txt, S_json_long, S_xml_long>>,
      <<S_a_txt, S_commit, S_msg_long, S_x>>, <<S_a_txt, S_ci, S_msg_long, S_x>> }

LoadInit ==
    /\ document \in LoadDocuments
    /\ load_strict \in BOOLEAN
    /\ restored = Unset /\ cmdline = <<>> /\ namespace = Unset
    /\ lpc = "document"
    /\ DumperIdle /\ CodecIdle /\ GraphIdle /\ RegistryIdle

\* restored = load(document, strict=load_strict)
Load ==
    /\ lpc = "document"
    /\ ~IsRaise(document)
    /\ restored' = load(document, load_strict)
    /\ lpc' = "loaded"
    /\ UNCHANGED <<document, load_strict, cmdline, namespace, dumperVars,
                   codecVars, graphVars, registryVars>>

\* namespace = restored.parse_args(words)
Parse(words) ==
    /\ lpc = "loaded"
    /\ ~IsRaise(restored)
    /\ cmdline' = words
    /\ namespace' = parse_args(restored, words)
    /\ lpc' = "parsed"
    /\ UNCHANGED <<document, load_strict, restored, dumperVars,
                   codecVars, graphVars, registryVars>>

LoadNext == Load \/ \E words \in CommandLines : Parse(words)

SpecLoad == LoadInit /\ [][LoadNext]_vars

(***************************************************************************)
(* Claims about load.                                                     *)
(***************************************************************************)
\* C11: load raises no exception for a document that is a JSON object, whatever
\* its keys, action types and tagged values, except UnresolvableTypeError, and
\* that one only in strict mode
C11_LoadTotal ==
    IsRaise(restored) => restored.exc = "UnresolvableTypeError" /\ load_strict

\* C12: a lenient load never raises UnresolvableTypeError, and it rebuilds every
\* argument whose type reference strict mode cannot resolve without a type
\* converter
C12_LenientOmitsType ==
    (lpc /= "document" /\ ~load_strict) =>
        /\ ~(IsRaise(restored) /\ restored.exc = "UnresolvableTypeError")
        /\ ~IsRaise(restored) =>
             LET actions == _convert_parser_info(document).f[F_actions].items
             IN \A i \in DOMAIN actions :
                   ( /\ actions[i].t = "ActionInfo"
                     /\ ~IsMember(actions[i].f[F_action_type],
                                  _NO_TYPE_ACTIONS \cup {"HELP", "VERSION", "PARSERS"})
                     /\ LET r == resolve_type(actions[i].f[F_type_info],
                                              actions[i].f[F_file_type_info], TRUE)
                        IN IsRaise(r) /\ r.exc = "UnresolvableTypeError" )
                   => \A k \in DOMAIN restored.actions :
                         restored.actions[k].dest = actions[i].f[F_dest]
                            => restored.actions[k].type = PyNone

\* a document of records with the keys of an argument of any kind but the ones
\* that shape the values (nargs, type, choices), every record with its option
\* strings, dest and kind, a kind of the schema, no option string twice
PlainRecords ==
    /\ Keys(document) \subseteq {PyStr(F_prog), PyStr(F_actions), PyStr(F_add_help)}
    /\ Has(document, F_actions) /\ Get(document, F_actions).t = "list"
    /\ LET records == Get(document, F_actions).items
           Strings(r) == {Get(r, F_option_strings).items[k] :
                            k \in DOMAIN Get(r, F_option_strings).items}
       IN /\ \A i \in DOMAIN records :
                /\ records[i].t = "dict"
                /\ {PyStr(F_option_strings), PyStr(F_dest), PyStr(F_action_type)}
                      \subseteq Keys(records[i])
                /\ Keys(records[i]) \subseteq
                      {PyStr(k) : k \in {F_option_strings, F_dest, F_action_type, F_default,
                                         F_const, F_help, F_version, F_subparsers,
                                         F_subparsers_dest, F_subparsers_aliases}}
                /\ Get(records[i], F_action_type).s
                      \in (DOMAIN ActionRegistry \cup {A_boolean_optional})
                /\ LET default == GetOr(records[i], F_default, PyNone)
                   IN default.t = "dict" => Has(default, K_argparse)
          /\ \A i, j \in DOMAIN records : i /= j => Strings(records[i]) \cap Strings(records[j]) = {}

\* the class argparse registers under a kind
KindClass(kind) ==
    IF kind = A_boolean_optional THEN "BooleanOptionalAction" ELSE ActionRegistry[kind]

\* C17: load adds one argument for every record whose kind is not help, in the
\* order of the document and with the option strings, the dest and the kind of
\* the record, and nothing for a help record
C17_OneArgumentPerRecord ==
    (lpc /= "document" /\ PlainRecords) =>
      /\ ~IsRaise(restored)
      /\ LET records == Get(document, F_actions).items
             kept == SelectSeq(records, LAMBDA r : Get(r, F_action_type) /= PyStr(F_help))
             own == IF Truthy(GetOr(document, F_add_help, PyBool(TRUE))) THEN 1 ELSE 0
         IN /\ Len(restored.actions) = own + Len(kept)
            /\ \A k \in DOMAIN kept :
                 /\ restored.actions[own + k].option_strings = Get(kept[k], F_option_strings)
                 /\ restored.actions[own + k].dest = Get(kept[k], F_dest)
                 /\ restored.actions[own + k].cls = KindClass(Get(kept[k], F_action_type).s)

\* the record holds the field with a value other than null
Present(record, field) == Has(record, field) /\ Get(record, field) /= PyNone

\* C18: the argument load rebuilds from a record of kind store has the nargs, the
\* const, the default and the choices the record holds, and, in strict mode, a
\* type converter when the record holds a type reference
C18_StoreFieldsCarried ==
    (lpc /= "document" /\ ~IsRaise(restored)) =>
      LET records == GetOr(document, F_actions, PyList(<<>>)).items
      IN \A i \in DOMAIN records :
            ( /\ records[i].t = "dict"
              /\ Has(records[i], F_dest) /\ Has(records[i], F_option_strings)
              /\ GetOr(records[i], F_action_type, PyNone) = PyStr(A_store) )
            => \E k \in DOMAIN restored.actions :
                 /\ restored.actions[k].dest = Get(records[i], F_dest)
                 /\ restored.actions[k].option_strings = Get(records[i], F_option_strings)
                 /\ Present(records[i], F_nargs) =>
                       restored.actions[k].nargs = deserialize_value(Get(records[i], F_nargs))
                 /\ Present(records[i], F_const) =>
                       restored.actions[k].const = deserialize_value(Get(records[i], F_const))
                 /\ Present(records[i], F_default) =>
                       restored.actions[k].default
                         = deserialize_value(Get(records[i], F_default))
                 /\ Present(records[i], F_choices) =>
                       restored.actions[k].choices = Get(records[i], F_choices)
                 /\ (Present(records[i], F_type_info) /\ load_strict) =>
                       restored.actions[k].type /= PyNone

\* the document lists one required group of json, xml and csv, and holds the
\* records of the three arguments
HasMutexRecord ==
    /\ GetOr(document, F_mutually_exclusive_groups, PyNone) = PyList(<<MutexRecord>>)
    /\ \A m \in DOMAIN MutexRecords :
          \E i \in DOMAIN Get(document, F_actions).items :
             Get(document, F_actions).items[i] = MutexRecords[m]

\* C19: from that document load rebuilds a parser with one mutually exclusive
\* group, required, whose members are the arguments json, xml and csv and no
\* other; the parser rejects a command line that selects two of them and
\* accepts one that selects one
C19_MutexRebuilt ==
    (lpc /= "document" /\ HasMutexRecord) =>
      /\ ~IsRaise(restored)
      /\ Len(restored.mutex) = 1
      /\ restored.mutex[1].required = PyBool(TRUE)
      /\ Len(restored.mutex[1].members) = 3
      /\ {restored.actions[restored.mutex[1].members[m]].dest :
             m \in DOMAIN restored.mutex[1].members}
           = {PyStr(S_json), PyStr(S_xml), PyStr(S_csv)}
      /\ (lpc = "parsed" /\ cmdline = <<S_a_txt, S_json_long, S_xml_long>>)
            => IsRaise(namespace)
      /\ (lpc = "parsed" /\ cmdline = <<S_a_txt, S_json_long>>)
            => /\ ~IsRaise(namespace)
               /\ NsGet(namespace, S_json, PyNone) = PyBool(TRUE)
               /\ NsGet(namespace, S_xml, PyNone) = PyBool(FALSE)

\* the rebuilt parser has rejected the command line that selects json and xml
C19_Witness ==
    /\ lpc = "parsed" /\ HasMutexRecord
    /\ Len(restored.mutex) = 1 /\ Len(restored.mutex[1].members) = 3
    /\ cmdline = <<S_a_txt, S_json_long, S_xml_long>>
    /\ IsRaise(namespace)

\* C13: resolve_type returns the converter the builtin table holds under the name
\* of a TypeInfo that is builtin and serializable, in strict and in lenient mode,
\* and it returns the builtin converter itself from the TypeInfo that
\* type_info_from_callable extracted from it
C13_BuiltinTable ==
    /\ ( /\ Returned
         /\ type_info.name \in DOMAIN _BUILTIN_CONVERTERS
         /\ type_info.builtin /\ type_info.serializable )
       => resolved = _BUILTIN_CONVERTERS[type_info.name]
    /\ ( /\ rpc = "returned"
         /\ converter \in {_BUILTIN_CONVERTERS[n] : n \in DOMAIN _BUILTIN_CONVERTERS} )
       => resolved = converter

\* the lenient resolution of the TypeInfo extracted from ascii has returned ascii
C13_Witness ==
    /\ rpc = "returned" /\ ~strict
    /\ converter = BuiltinFunction(S_ascii)
    /\ type_info = TypeInfo(S_ascii, PyNone, TRUE, TRUE)
    /\ resolved = BuiltinFunction(S_ascii)

(***************************************************************************)
(* The dump specification: a program builds a parser with add_argument,    *)
(* add_subparsers and add_parser, dumps it with or without the environment *)
(* block, loads the document again and parses a command line with the      *)
(* rebuilt parser.                                                         *)
(***************************************************************************)
MaxArguments == 2
MaxParsers == 2

Invocation(args, kwargs) == [args |-> args, kwargs |-> Kw(kwargs)]

\* the add_argument calls of the program on the parser itself
ArgumentCalls ==
    { Invocation(<<PyStr(S_v)>>, << <<F_action, PyStr(A_count)>>, <<F_default, PyInt(0)>> >>),
      Invocation(<<PyStr(S_o), PyStr(S_output_long)>>, << <<F_default, PyStr(S_out_txt)>> >>) }

\* the add_argument call of the program on a parser add_parser returned
ChildCalls == { Invocation(<<PyStr(S_msg_long)>>, <<>>) }

\* the add_subparsers calls: without a dest, and with dest="cmd"
SubparsersCalls == { Kw(<<>>), Kw(<< <<F_dest, PyStr(S_cmd)>> >>) }

\* the add_parser calls: a name and its aliases
ParserCalls ==
    { Invocation(<<PyStr(S_checkout)>>, << <<F_aliases, StrList(<<S_co, S_ch>>)>> >>),
      Invocation(<<PyStr(S_commit)>>, << <<F_aliases, StrList(<<S_ci>>)>> >>),
      Invocation(<<PyStr(S_commit)>>, <<>>) }

DumpCommandLines ==
    { <<S_v, S_commit, S_msg_long, S_x>>, <<S_ci>>, <<S_co>> }

DumpInit ==
    /\ original = ArgumentParser(Kw(<< <<F_prog, PyStr(S_prog)>> >>))
    /\ with_env = FALSE /\ twin = Unset
    /\ document = Unset
    /\ load_strict \in BOOLEAN
    /\ restored = Unset /\ cmdline = <<>> /\ namespace = Unset
    /\ lpc = "build"
    /\ CodecIdle /\ GraphIdle /\ RegistryIdle

\* original.add_argument(*call.args, **call.kwargs), before add_subparsers
AddArgument(call) ==
    /\ lpc = "build"
    /\ SubParsersIndex(original) = 0
    /\ Len(original.actions) < MaxArguments + 1
    /\ LET p == add_argument(original, 0, call.args, call.kwargs)
       IN ~IsRaise(p) /\ original' = p
    /\ UNCHANGED <<with_env, twin, loaderVars, codecVars, graphVars, registryVars>>

\* subparsers = original.add_subparsers(**kwargs)
AddSubparsers(kwargs) ==
    /\ lpc = "build"
    /\ LET p == add_subparsers(original, kwargs)
       IN ~IsRaise(p) /\ original' = p
    /\ UNCHANGED <<with_env, twin, loaderVars, codecVars, graphVars, registryVars>>

\* child = subparsers.add_parser(name, aliases=...)
AddParser(call) ==
    /\ lpc = "build"
    /\ SubParsersIndex(original) /= 0
    /\ Len(original.actions[SubParsersIndex(original)].parsers) < MaxParsers
    /\ LET p == add_parser(original, call.args[1], call.kwargs)
       IN ~IsRaise(p) /\ original' = p
    /\ UNCHANGED <<with_env, twin, loaderVars, codecVars, graphVars, registryVars>>

\* child.add_argument(*call.args, **call.kwargs), child being the parser the last
\* add_parser returned
AddChildArgument(call) ==
    /\ lpc = "build"
    /\ SubParsersIndex(original) /= 0
    /\ original.actions[SubParsersIndex(original)].parsers /= <<>>
    /\ LET i == SubParsersIndex(original)
           k == Len(original.actions[i].parsers)
           child == add_argument(original.actions[i].parsers[k], 0, call.args, call.kwargs)
       IN ~IsRaise(child) /\ original' = [original EXCEPT !.actions[i].parsers[k] = child]
    /\ UNCHANGED <<with_env, twin, loaderVars, codecVars, graphVars, registryVars>>

\* document = dump(original, include_env=include_env): the first dump of the
\* program, or, once the first document is loaded, the dump with the other value
\* of include_env, the parser loaded first being kept as twin
Dump(include_env) ==
    /\ \/ lpc = "build" /\ twin' = twin
       \/ lpc = "loaded" /\ twin = Unset /\ include_env = ~with_env /\ twin' = restored
    /\ document' = dump(original, include_env)
    /\ with_env' = include_env
    /\ restored' = Unset
    /\ lpc' = "document"
    /\ UNCHANGED <<original, load_strict, cmdline, namespace,
                   codecVars, graphVars, registryVars>>

DumpNext ==
    \/ \E call \in ArgumentCalls : AddArgument(call)
    \/ \E kwargs \in SubparsersCalls : AddSubparsers(kwargs)
    \/ \E call \in ParserCalls : AddParser(call)
    \/ \E call \in ChildCalls : AddChildArgument(call)
    \/ \E include_env \in BOOLEAN : Dump(include_env)
    \/ Load
    \/ \E words \in DumpCommandLines : Parse(words)

SpecDump == DumpInit /\ [][DumpNext]_vars

(***************************************************************************)
(* Claims about the encoding of subparsers and their aliases.              *)
(***************************************************************************)
\* the program has dumped a parser that holds a subparsers action
Dumped == lpc /= "build" /\ ~IsRaise(document) /\ SubParsersIndex(original) /= 0

\* the name-to-parser map of that action, and the record dump wrote for it
ParserMap == original.actions[SubParsersIndex(original)].name_parser_map
SubRecord == Get(document, F_actions).items[SubParsersIndex(original)]

\* C14: dump writes one nested grammar per distinct parser of the map, under the
\* first name the map enumerates for that parser, and records the other names of
\* the parser, in the order of the map, as the alias list of that name; a parser
\* with one name has no entry among the aliases
C14_OneNodePerParser ==
    Dumped =>
      LET map == ParserMap
          subs == Get(SubRecord, F_subparsers).pairs
          al == Get(SubRecord, F_subparsers_aliases)
          ids == {map[j][2] : j \in DOMAIN map}
          First(id) == CHOOSE j \in DOMAIN map :
                          map[j][2] = id /\ \A h \in 1..(j - 1) : map[h][2] /= id
          Others(id) ==
              LET idx == SelectSeq([j \in DOMAIN map |-> j],
                                   LAMBDA j : map[j][2] = id /\ j /= First(id))
              IN [k \in DOMAIN idx |-> map[idx[k]][1]] \o <<>>
      IN /\ Len(subs) = Cardinality(ids)
         /\ \A id \in ids :
              /\ \E n \in DOMAIN subs :
                   /\ subs[n][1] = map[First(id)][1]
                   /\ Get(subs[n][2], F_prog)
                        = ParserKw(original.actions[SubParsersIndex(original)].parsers[id],
                                   F_prog, PyNone)
              /\ IF Others(id) = <<>>
                 THEN ~Has(al, map[First(id)][1].s)
                 ELSE /\ Has(al, map[First(id)][1].s)
                      /\ Get(al, map[First(id)][1].s) = PyList(Others(id))

\* the dumped parser binds checkout, co and ch to one parser and commit to another
C14_Witness ==
    /\ Dumped
    /\ Len(ParserMap) = 4
    /\ ParserMap[1][2] = ParserMap[3][2] /\ ParserMap[1][2] /= ParserMap[4][2]
    /\ Len(Get(SubRecord, F_subparsers).pairs) = 2
    /\ Get(Get(SubRecord, F_subparsers_aliases), S_checkout) = StrList(<<S_co, S_ch>>)

\* C15: the keys of subparsers and the entries of the alias lists hold every name
\* of the map exactly once and nothing else, every key of subparsers_aliases is a
\* key of subparsers, and two names stand under the same key exactly when the map
\* binds them to the same parser
C15_NamesPartitioned ==
    Dumped =>
      LET map == ParserMap
          subs == Get(SubRecord, F_subparsers).pairs
          al == Get(SubRecord, F_subparsers_aliases).pairs
          entries == UNION {{<<e, m>> : m \in DOMAIN al[e][2].items} : e \in DOMAIN al}
          Count(name) ==
              Cardinality({n \in DOMAIN subs : subs[n][1] = name})
              + Cardinality({x \in entries : al[x[1]][2].items[x[2]] = name})
          Under(name, n) ==
              \/ subs[n][1] = name
              \/ \E x \in entries : al[x[1]][1] = subs[n][1] /\ al[x[1]][2].items[x[2]] = name
          Canon(name) == CHOOSE n \in DOMAIN subs : Under(name, n)
      IN /\ \A j \in DOMAIN map : Count(map[j][1]) = 1
         /\ \A n \in DOMAIN subs : \E j \in DOMAIN map : map[j][1] = subs[n][1]
         /\ \A x \in entries : \E j \in DOMAIN map : map[j][1] = al[x[1]][2].items[x[2]]
         /\ \A e \in DOMAIN al : \E n \in DOMAIN subs : subs[n][1] = al[e][1]
         /\ \A j \in DOMAIN map : \E n \in DOMAIN subs : Under(map[j][1], n)
         /\ \A i, j \in DOMAIN map :
              (Canon(map[i][1]) = Canon(map[j][1])) <=> (map[i][2] = map[j][2])

\* the dumped parser binds commit and ci to one parser, and checkout, co and ch to
\* another
C15_Witness ==
    /\ Dumped
    /\ Len(ParserMap) = 5
    /\ ParserMap[1][1] = PyStr(S_commit) /\ ParserMap[2][1] = PyStr(S_ci)
    /\ ParserMap[3][1] = PyStr(S_checkout)
    /\ Len(Get(SubRecord, F_subparsers).pairs) = 2
    /\ Len(Get(SubRecord, F_subparsers_aliases).pairs) = 2

\* C16: the parser load rebuilds from the dumped record registers every name of
\* the map, canonical or alias, binds the names of one command to one nested
\* parser, which holds the arguments of that command, and parsing a command
\* line that names the command by any of its names succeeds with the result of
\* parsing through the first name, the chosen command being the name typed
C16_AliasesReplayed ==
    (lpc \in {"loaded", "parsed"} /\ Dumped /\ ParserMap /= <<>>) =>
      /\ ~IsRaise(restored)
      /\ SubParsersIndex(restored) /= 0
      /\ LET map == ParserMap
             action == restored.actions[SubParsersIndex(restored)]
             rmap == action.name_parser_map
             Id(m, n) == m[CHOOSE j \in DOMAIN m : m[j][1] = n][2]
             Dests(p) == {p.actions[k].dest : k \in DOMAIN p.actions}
             First(n) == map[CHOOSE j \in DOMAIN map :
                                /\ map[j][2] = Id(map, n)
                                /\ \A h \in 1..(j - 1) : map[h][2] /= Id(map, n)][1]
         IN /\ {rmap[j][1] : j \in DOMAIN rmap} = {map[j][1] : j \in DOMAIN map}
            /\ \A i, j \in DOMAIN map :
                  (map[i][2] = map[j][2]) <=> (Id(rmap, map[i][1]) = Id(rmap, map[j][1]))
            /\ \A j \in DOMAIN map :
                  Dests(action.parsers[Id(rmap, map[j][1])])
                    = Dests(original.actions[SubParsersIndex(original)].parsers[map[j][2]])
            /\ ( /\ lpc = "parsed" /\ Len(cmdline) = 1
                 /\ \E j \in DOMAIN map : map[j][1] = PyStr(cmdline[1]) )
               => /\ ~IsRaise(namespace)
                  /\ NsGet(namespace, action.dest.s, PyNone) = PyStr(cmdline[1])
                  /\ LET canonical == parse_args(restored, <<First(PyStr(cmdline[1])).s>>)
                     IN /\ ~IsRaise(canonical)
                        /\ namespace = NsSet(canonical, action.dest.s, PyStr(cmdline[1]))

\* the rebuilt parser has parsed the command line "co", co being an alias of
\* checkout, and the namespace holds cmd = "co"
C16_Witness ==
    /\ lpc = "parsed" /\ Dumped
    /\ cmdline = <<S_co>>
    /\ \E j \in DOMAIN ParserMap : ParserMap[j][1] = PyStr(S_co) /\ j > 1
    /\ ~IsRaise(namespace)
    /\ NsGet(namespace, S_cmd, PyNone) = PyStr(S_co)


\* C20: every document returned by dump has "$schema" as its first key, for
\* both values of include_env, and holds "$env" exactly when include_env is
\* true; load strips both keys, so the parser loaded from the document made
\* with include_env and the one loaded from the document made without it are
\* the same parser
C20_SchemaFirstEnvOptional ==
    /\ (lpc /= "build" /\ ~IsRaise(document))
       => /\ document.pairs[1][1] = PyStr(F_schema)
          /\ Has(document, F_env) <=> with_env
          /\ Cardinality({i \in DOMAIN document.pairs :
                            document.pairs[i][1] \in {PyStr(F_schema), PyStr(F_env)}})
               = IF with_env THEN 2 ELSE 1
    /\ (lpc \in {"loaded", "parsed"} /\ ~IsRaise(document))
       => ~IsRaise(restored)
    /\ (lpc \in {"loaded", "parsed"} /\ twin /= Unset)
       => restored = twin

\* a parser with subcommands has been dumped with and without the environment
\* block, both documents have been loaded, and the two loaded parsers are equal
C20_Witness ==
    /\ lpc = "loaded" /\ twin /= Unset /\ with_env
    /\ Has(document, F_env)
    /\ ~IsRaise(restored) /\ restored = twin
    /\ SubParsersIndex(restored) /= 0
    /\ Len(restored.actions) >= 3

(***************************************************************************)
(* Claims about the bookkeeping of serialize_value and about the tagged    *)
(* nodes of the codec.                                                     *)
(***************************************************************************)
\* C23: during one top-level serialize_value call the _seen set is a stack: on
\* entry to the encoding of a value it holds exactly the ids of the composites on
\* the path from the root to the value (a composite is added before its children
\* are encoded and removed after the last of them), and it is empty when the
\* top-level call returns.
C23_SeenIsThePath ==
    gpc = "encoded" =>
        /\ \A k \in DOMAIN enc.log : enc.log[k].seen = Range(enc.log[k].path)
        /\ ~IsRaise(enc.tree) => enc.seen = {}

\* a list that holds an empty dict and then another container: the second is
\* entered after the dict has been left, with only the list in _seen, and _seen
\* is empty at the end
C23_Witness ==
    /\ gpc = "encoded"
    /\ heap[1].items = <<Ref(2), Ref(3)>>
    /\ heap[2].pairs = <<>>
    /\ heap[3].items = <<PyInt(2)>>
    /\ enc.log = << Visit(1, {}, <<>>, FALSE), Visit(2, {1}, <<1>>, FALSE),
                    Visit(3, {1}, <<1>>, FALSE) >>
    /\ enc.seen = {}

\* a mapping that _deserialize_dict takes for an enum node
IsEnumNode(v) ==
    /\ v.t = "dict" /\ Has(v, K_enum)
    /\ \A k \in {K_argparse, K_set, K_frozenset, K_bytes, K_bytes_b64, K_range} : ~Has(v, k)

\* C28: an Enum member encodes to a node tagged __enum__ holding module, class
\* name, member name and underlying value; decoding an enum-tagged node never
\* raises: it yields the member of the located class, or the bare underlying
\* value when the class cannot be located or the value is no member.
C28_EnumDecodeNeverRaises ==
    /\ (pc /= "input" /\ val /= Unset /\ val.t = "enum")
       => tree = PyDict(<<Entry(K_enum, PyBool(TRUE)), Entry(K_class, PyStr(val.cls)),
                          Entry(K_module, PyStr(val.module)), Entry(K_value, val.value),
                          Entry(K_name, PyStr(val.name))>>)
    /\ (pc = "decoded" /\ IsEnumNode(tree))
       => /\ ~IsRaise(out)
          /\ \/ out = GetOr(tree, K_value, PyNone)
             \/ /\ out.t = "enum"
                /\ PyStr(out.cls) = Get(tree, K_class)
                /\ PyStr(out.module) = Get(tree, K_module)
                /\ PyEq(out.value, Get(tree, K_value))

\* a mapping that _deserialize_dict takes for an opaque node declaring
\* __serializable__ false
IsOpaqueNode(v) ==
    /\ v.t = "dict" /\ Has(v, K_repr)
    /\ GetOr(v, K_serializable, PyNone) = PyBool(FALSE)

RECURSIVE HoldsOpaque(_)
HoldsOpaque(v) ==
    \/ IsOpaqueNode(v)
    \/ IsContainer(v) /\ \E i \in DOMAIN Children(v) : HoldsOpaque(Children(v)[i])

\* C29: an object of no supported kind encodes to the opaque node {__repr__,
\* __type_name__, __serializable__: false}, and an opaque node whose
\* __serializable__ is false decodes to None, also inside a list or a mapping:
\* no decoded value holds the opaque node.
C29_OpaqueDecodesToNone ==
    /\ (pc /= "input" /\ val /= Unset /\ val.t = "object")
       => tree = PyDict(<<Entry(K_repr, PyStr(val.repr)),
                          Entry(K_type_name, PyStr(val.type_name)),
                          Entry(K_serializable, PyBool(FALSE))>>)
    /\ (pc = "decoded" /\ IsOpaqueNode(tree)) => out = PyNone
    /\ (pc = "decoded" /\ ~IsRaise(out)) => ~HoldsOpaque(out)

\* the value with every tuple held in a list, a tuple or a dict replaced by the
\* list of the same elements
RECURSIVE AsLists(_)
AsLists(v) ==
    IF v.t \in {"list", "tuple"} THEN PyList([i \in DOMAIN v.items |-> AsLists(v.items[i])])
    ELSE IF v.t = "dict"
         THEN PyDict([i \in DOMAIN v.pairs |-> <<v.pairs[i][1], AsLists(v.pairs[i][2])>>])
    ELSE v

\* C30: a list and a tuple of the same elements encode to the same tree, a plain
\* array, at any nesting depth, and an array decodes to a list: a tuple that is
\* encoded and decoded comes back as a list.
C30_TupleEncodesAsList ==
    /\ (pc /= "input" /\ val /= Unset)
       => /\ tree = Encoded(AsLists(val)).tree
          /\ val.t \in {"list", "tuple"} => tree.t = "list"
    /\ (pc = "decoded" /\ tree.t = "list" /\ ~IsRaise(out)) => out.t = "list"
    /\ (pc = "decoded" /\ val /= Unset /\ val.t = "tuple" /\ ~IsRaise(out))
       => out.t = "list" /\ out /= val

\* the tuple (2, (2,)) has been encoded to [2, [2]] and decoded to the list
\* [2, [2]]
C30_Witness ==
    /\ pc = "decoded"
    /\ val = PyTuple(<<PyInt(2), PyTuple(<<PyInt(2)>>)>>)
    /\ tree = PyList(<<PyInt(2), PyList(<<PyInt(2)>>)>>)
    /\ tree = Encoded(PyList(<<PyInt(2), PyList(<<PyInt(2)>>)>>)).tree
    /\ out = PyList(<<PyInt(2), PyList(<<PyInt(2)>>)>>)

(***************************************************************************)
(* Claims about the two modes of resolve_type.                             *)
(***************************************************************************)
\* C24: strict and lenient resolution agree for every TypeInfo and FileTypeInfo:
\* when resolve_type with strict=True returns a converter, strict=False returns
\* the same converter, and when strict=True raises UnresolvableTypeError,
\* strict=False returns None.
C24_ModesAgree ==
    Returned =>
        LET strictly == resolve_type(type_info, file_type_info, TRUE)
            leniently == resolve_type(type_info, file_type_info, FALSE)
        IN /\ resolved = IF strict THEN strictly ELSE leniently
           /\ ~IsRaise(strictly) => leniently = strictly
           /\ (IsRaise(strictly) /\ strictly.exc = "UnresolvableTypeError")
                 => leniently = PyNone

\* the callable of the name in the builtins namespace, if there is one
Ambient(name) ==
    {a \in ModuleAttrs : a.module = S_builtins /\ a.name = name /\ a.callable}

\* C25: a serializable TypeInfo without a module that neither the FileType
\* strategy nor the table of builtin converters resolves is resolved, in both
\* modes, to the callable of that name in the builtins module when there is one;
\* when there is none, strict mode raises UnresolvableTypeError ("Could not
\* resolve type <name>") and lenient mode returns None.
C25_AmbientFallback ==
    (/\ Returned /\ type_info.serializable /\ ~HasOrigin
     /\ _resolve_file_type(type_info, file_type_info) = PyNone
     /\ ~(type_info.builtin /\ type_info.name \in DOMAIN _BUILTIN_CONVERTERS))
        => IF Ambient(type_info.name) /= {}
           THEN \E a \in Ambient(type_info.name) : resolved = a.obj
           ELSE /\ Failed
                /\ strict => resolved.why = "could not resolve"

\* len, named without module and without the builtin flag, resolved in strict
\* mode to the function len of builtins
C25_Witness ==
    /\ Returned /\ strict
    /\ type_info = TypeInfo(S_len, PyNone, FALSE, TRUE)
    /\ resolved = BuiltinFunction(S_len)

(***************************************************************************)
(* The groups specification: a program builds a parser, with the default   *)
(* conflict handler or with conflict_handler="resolve", creates mutually   *)
(* exclusive groups, adds arguments to the parser and to the groups, some  *)
(* of them with an action class of its own, dumps the parser, loads the    *)
(* document and parses a command line with the rebuilt parser.             *)
(***************************************************************************)
MaxGroups == 2
MaxGroupArguments == 2

\* the add_argument calls of the program: two arguments that share dest "x", an
\* argument that takes the option string of the first, and two arguments whose
\* action is a class of the program
GroupCalls ==
    { Invocation(<<PyStr(S_json_long)>>, << <<F_dest, PyStr(S_x)>>,
                 <<F_action, PyStr(A_store_const)>>, <<F_const, PyInt(1)>> >>),
      Invocation(<<PyStr(S_xml_long)>>, << <<F_dest, PyStr(S_x)>>,
                 <<F_action, PyStr(A_store_const)>>, <<F_const, PyInt(2)>> >>),
      Invocation(<<PyStr(S_json_long)>>, << <<F_action, PyStr(A_store_true)>> >>),
      Invocation(<<PyStr(S_quiet_long)>>, << <<F_action, ActionClass("QuietAction")>> >>),
      Invocation(<<PyStr(S_foo_long)>>, << <<F_action, ActionClass("FooAction")>> >>) }

GroupCommandLines == { <<S_json_long, S_xml_long>>, <<S_quiet_long>> }

\* the arguments added so far: those of the parser and those a later argument
\* has displaced
Added(p) ==
    Len(p.actions) - 1
    + Cardinality({gm \in (DOMAIN p.mutex) \X (1..MaxGroupArguments) :
                      gm[2] \in DOMAIN p.mutex[gm[1]].stale})

GroupsInit ==
    /\ original \in { ArgumentParser(Kw(<< <<F_prog, PyStr(S_prog)>> >>)),
                      ArgumentParser(Kw(<< <<F_prog, PyStr(S_prog)>>,
                                           <<F_conflict_handler, PyStr(S_resolve)>> >>)) }
    /\ with_env = FALSE /\ twin = Unset
    /\ document = Unset
    /\ load_strict = TRUE
    /\ restored = Unset /\ cmdline = <<>> /\ namespace = Unset
    /\ lpc = "build"
    /\ CodecIdle /\ GraphIdle /\ RegistryIdle

\* group = original.add_mutually_exclusive_group()
AddGroup ==
    /\ lpc = "build"
    /\ Len(original.mutex) < MaxGroups
    /\ original' = add_mutually_exclusive_group(original, PyBool(FALSE))
    /\ UNCHANGED <<with_env, twin, loaderVars, codecVars, graphVars, registryVars>>

\* original.add_argument(...) when group = 0, or add_argument(...) on the
\* group-th mutually exclusive group
AddGroupArgument(group, call) ==
    /\ lpc = "build"
    /\ group \in 0..Len(original.mutex)
    /\ Added(original) < MaxGroupArguments
    /\ LET p == add_argument(original, group, call.args, call.kwargs)
       IN ~IsRaise(p) /\ original' = p
    /\ UNCHANGED <<with_env, twin, loaderVars, codecVars, graphVars, registryVars>>

GroupsNext ==
    \/ AddGroup
    \/ \E group \in 0..MaxGroups, call \in GroupCalls : AddGroupArgument(group, call)
    \/ Dump(TRUE)
    \/ Load
    \/ \E words \in GroupCommandLines : Parse(words)

SpecGroups == GroupsInit /\ [][GroupsNext]_vars

\* the record dump wrote for the i-th action of the parser
DumpedRecord(i) == Get(document, F_actions).items[i]

\* C21: an action whose class name is known is written with the kind of that name
\* and no class name; any other action is written with the kind of the first
\* known class of its ancestry chain, or unknown when there is none, and with its
\* own class name; a subclass of the store_true action is written store_true.
C21_NearestKnownAncestor ==
    (lpc /= "build" /\ ~IsRaise(document)) =>
        \A i \in DOMAIN original.actions :
            LET cls == original.actions[i].cls
                chain == Mro(cls)
                known == {k \in DOMAIN chain : chain[k] \in DOMAIN _ACTION_CLASS_MAP}
                kind == Get(DumpedRecord(i), F_action_type)
                custom == GetOr(DumpedRecord(i), F_custom_action_class, PyNone)
            IN /\ cls \in DOMAIN _ACTION_CLASS_MAP
                    => kind = PyStr(_ACTION_CLASS_MAP[cls].s) /\ custom = PyNone
               /\ cls \notin DOMAIN _ACTION_CLASS_MAP
                    => /\ custom = PyStr(ClassName(cls))
                       /\ known = {} => kind = PyStr(A_unknown)
                       /\ known /= {} =>
                            \E k \in known : /\ \A j \in known : k <= j
                                             /\ kind = PyStr(_ACTION_CLASS_MAP[chain[k]].s)
               /\ cls = "QuietAction" => kind = PyStr(A_store_true)
               /\ cls = "FooAction" => kind = PyStr(A_unknown)

\* a dumped parser with an argument of class QuietAction, written store_true
\* with the class name, and one of class FooAction, written unknown
C21_Witness ==
    /\ lpc = "document" /\ ~IsRaise(document)
    /\ Len(original.actions) = 3
    /\ original.actions[2].cls = "QuietAction"
    /\ original.actions[3].cls = "FooAction"
    /\ Get(DumpedRecord(2), F_action_type) = PyStr(A_store_true)
    /\ Get(DumpedRecord(2), F_custom_action_class) = PyStr(S_QuietAction)
    /\ Get(DumpedRecord(3), F_action_type) = PyStr(A_unknown)
    /\ Get(DumpedRecord(3), F_custom_action_class) = PyStr(S_FooAction)
    /\ Get(DumpedRecord(1), F_action_type) = PyStr(F_help)
    /\ GetOr(DumpedRecord(1), F_custom_action_class, PyNone) = PyNone

\* the dests of the action records of the document
RecordDests == {Get(DumpedRecord(i), F_dest) : i \in DOMAIN Get(document, F_actions).items}

\* the dests a list of group records names
ListedDests(groups) == UNION {Range(Get(groups[g], F_actions).items) : g \in DOMAIN groups}

C26_MembersReplayed ==
    (lpc \in {"loaded", "parsed"} /\ ~IsRaise(restored)) =>
        /\ Len(restored.actions) = Len(original.actions)
        /\ Len(restored.mutex) = Len(original.mutex)
        /\ \A g \in DOMAIN original.mutex :
              Range(restored.mutex[g].members) = Range(original.mutex[g].members)

(***************************************************************************)
(* The nesting specification: a document whose grammar holds a subparsers  *)
(* record, whose nested grammar holds one again, down to MaxNesting        *)
(* levels, each grammar with an option --level that carries a type         *)
(* reference or none; load rebuilds the parser in strict or lenient mode   *)
(* and the parser parses a command line.                                   *)
(***************************************************************************)
MaxNesting == 2
MaxNestingBelowOption == 1

\* what the --level record of a grammar carries: no type reference, the builtin
\* int, a name nothing resolves, a reference marked as not serializable
TypeChoices ==
    { <<>>,
      << <<F_type_info, TypeRecord(S_int, << <<F_builtin, PyBool(TRUE)>> >>)>> >>,
      << <<F_type_info, TypeRecord(S_NonExistent, <<>>)>> >>,
      << <<F_type_info, TypeRecord(S_lambda, << <<K_module, PyStr(S_main)>>,
                                                <<F_serializable, PyBool(FALSE)>> >>)>> >> }

\* the sequences of length n over S
RECURSIVE Tuples(_, _)
Tuples(S, n) ==
    IF n = 0 THEN {<<>>} ELSE {<<x>> \o t : x \in S, t \in Tuples(S, n - 1)}

\* a grammar with the option --level of types[1] and, when types has more
\* elements, a subparsers record whose command commit has the grammar of the
\* rest; the subparsers record stands before the option or after it in the top
\* grammar, and before it in the nested ones
RECURSIVE NestedNode(_, _, _)
NestedNode(prog, types, subparsers_first) ==
    LET option == ActionRecord(<<S_level_long>>, S_level, A_store, Head(types))
        commands ==
            ActionRecord(<<>>, S_cmd, A_parsers,
                << <<F_subparsers,
                     PyDict(<< <<PyStr(S_commit),
                                 NestedNode(S_commit, Tail(types), TRUE)>> >>)>>,
                   <<F_subparsers_dest, PyStr(S_cmd)>> >>)
    IN Kw(<< <<F_prog, PyStr(prog)>>,
             <<F_actions,
               PyList(IF Len(types) = 1 THEN <<option>>
                      ELSE IF subparsers_first THEN <<commands, option>>
                      ELSE <<option, commands>>)>> >>)

\* the documents: up to MaxNesting nested levels when the subparsers record of
\* the top grammar stands first, up to MaxNestingBelowOption when the option does
NestedDocuments ==
    {NestedNode(S_prog, types, TRUE) :
        types \in UNION {Tuples(TypeChoices, n) : n \in 1..(MaxNesting + 1)}}
    \cup {NestedNode(S_prog, types, FALSE) :
        types \in UNION {Tuples(TypeChoices, n) : n \in 1..(MaxNestingBelowOption + 1)}}

NestedCommandLines ==
    { <<S_level_long, S_3>>, <<S_commit, S_level_long, S_3>>,
      <<S_commit, S_commit, S_level_long, S_x>> }

NestedInit ==
    /\ document \in NestedDocuments
    /\ load_strict \in BOOLEAN
    /\ restored = Unset /\ cmdline = <<>> /\ namespace = Unset
    /\ lpc = "document"
    /\ DumperIdle /\ CodecIdle /\ GraphIdle /\ RegistryIdle

NestedNext == Load \/ \E words \in NestedCommandLines : Parse(words)

SpecNested == NestedInit /\ [][NestedNext]_vars

\* the type references of a grammar in the order replay meets them: those of the
\* records in their order, those of a nested grammar at its subparsers record
RECURSIVE TypeRefsInOrder(_)
TypeRefsInOrder(node) ==
    LET records == Get(node, F_actions).items
        RECURSIVE From(_)
        From(i) ==
            IF i > Len(records) THEN <<>>
            ELSE (IF Has(records[i], F_subparsers)
                  THEN LET subs == Get(records[i], F_subparsers).pairs
                           RECURSIVE Nested(_)
                           Nested(k) == IF k > Len(subs) THEN <<>>
                                        ELSE TypeRefsInOrder(subs[k][2]) \o Nested(k + 1)
                       IN Nested(1)
                  ELSE IF Has(records[i], F_type_info)
                  THEN <<Get(records[i], F_type_info)>>
                  ELSE <<>>)
                 \o From(i + 1)
    IN From(1)

\* what resolve_type does in strict mode with a type reference of the document
StrictlyResolved(ref) == resolve_type(TypeInfoOf(ref), PyNone, TRUE)

\* the number of subparsers records on the longest chain of nested grammars
RECURSIVE NestingDepth(_)
NestingDepth(node) ==
    LET records == Get(node, F_actions).items
        below == UNION {{NestingDepth(Get(records[i], F_subparsers).pairs[k][2]) + 1 :
                            k \in DOMAIN Get(records[i], F_subparsers).pairs} :
                        i \in {j \in DOMAIN records : Has(records[j], F_subparsers)}}
    IN IF below = {} THEN 0 ELSE CHOOSE d \in below : \A e \in below : d >= e

\* the number of subparsers actions on the longest chain of nested parsers
RECURSIVE ParserDepth(_)
ParserDepth(p) ==
    LET i == SubParsersIndex(p)
        below == IF i = 0 THEN {}
                 ELSE {ParserDepth(p.actions[i].parsers[k]) + 1 :
                          k \in DOMAIN p.actions[i].parsers}
    IN IF below = {} THEN 0 ELSE CHOOSE d \in below : \A e \in below : d >= e

\* C27: load returns for every document; in strict mode it raises the
\* UnresolvableTypeError of the first type reference, in replay order and at
\* whatever depth, that resolve_type does not resolve, and it returns a parser
\* when there is none; in lenient mode it always returns a parser; the parser
\* returned has as many levels of nested parsers as the document has of nested
\* grammars.
C27_NestedReplay ==
    lpc \in {"loaded", "parsed"} =>
        LET refs == TypeRefsInOrder(document)
            bad == {i \in DOMAIN refs : IsRaise(StrictlyResolved(refs[i]))}
        IN /\ restored /= Unset
           /\ (load_strict /\ bad /= {}) =>
                 /\ IsRaise(restored) /\ restored.exc = "UnresolvableTypeError"
                 /\ restored = StrictlyResolved(refs[CHOOSE i \in bad : \A j \in bad : i <= j])
           /\ (load_strict /\ bad = {}) => ~IsRaise(restored)
           /\ ~load_strict => ~IsRaise(restored)
           /\ ~IsRaise(restored) => ParserDepth(restored) = NestingDepth(document)

\* strict load of a document of two nested levels, with the subparsers records
\* first, whose only unresolvable type reference is at the deepest level, which
\* replay meets first, has raised the UnresolvableTypeError of that reference
C27_Witness ==
    /\ lpc = "loaded" /\ load_strict
    /\ NestingDepth(document) = 2
    /\ Has(Get(document, F_actions).items[1], F_subparsers)
    /\ Len(TypeRefsInOrder(document)) = 3
    /\ IsRaise(StrictlyResolved(TypeRefsInOrder(document)[1]))
    /\ ~IsRaise(StrictlyResolved(TypeRefsInOrder(document)[2]))
    /\ ~IsRaise(StrictlyResolved(TypeRefsInOrder(document)[3]))
    /\ IsRaise(restored) /\ restored.exc = "UnresolvableTypeError"
    /\ restored = StrictlyResolved(TypeRefsInOrder(document)[1])

====
